---- MODULE Spec2Model ----
(***************************************************************************)
(* Model of skm-pss-adapters: the identifier tracker (IDTracker), the      *)
(* reaction graph of the model-fixing module (Graph), the fix suggestion   *)
(* and application of ModelFixer and its repair loop.                      *)
(*                                                                         *)
(* Conventions.  A Python str that the code takes apart with a regular     *)
(* expression (a species name) is a sequence of one-character strings; a   *)
(* str that is only compared, looked up or concatenated (a form, a         *)
(* compartment, an identifier) is a TLA+ string.  Python's None is the     *)
(* string None in string-valued fields.  An insertion-ordered dict is a    *)
(* sequence of its values (reactions) or a function (species_ids, whose    *)
(* order is never read).  networkx calls are modelled by their documented  *)
(* result (weakly_connected_components, subgraph, neighbors).              *)
(***************************************************************************)
EXTENDS Integers, Sequences, FiniteSets, TLC

VARIABLES
    location,              \* IDTracker.location
    species_ids,           \* IDTracker.species_ids: identity key -> ID
    counters,              \* IDTracker.counters
    result,                \* what the last get_species_id call returned
    reactions,             \* PSSAdapter.reactions: the Reaction objects in dict order
    additional_reactions,  \* PSSAdapter.additional_reactions
    apply_log,             \* the calls of apply_model_fixes: argument and return value
    graph,                 \* a Graph object: its location flag and its DiGraph
    previous_graph,        \* the Graph object before the last operation on it
    bridge,                \* the edge last added to graph.graph by hand, if any
    interactive,           \* ModelFixer.interactive
    apply_fixes,           \* ModelFixer.apply_fixes
    max_iterations,        \* the argument of identify_model_fixes
    pc,                    \* where identify_model_fixes stands
    part,                  \* the axis of the loop that runs: 'form' or 'location'
    iteration,             \* the loop variable of that loop
    problematic_nodes,     \* the entries the loop over the nodes has yet to take
    num_fixes_applied,     \* num_fixes_applied of _identify_model_fixes
    num_applied,           \* num_form_fixes_applied and num_location_fixes_applied
    pass_log,              \* the passes run: axis, nodes taken with the answers, result
    reaction_ids,          \* IDTracker.reaction_ids of a writer: reaction.id -> ID
    compartment_ids,       \* IDTracker.compartment_ids of a writer: compartment -> ID
    sbml_model,            \* the elements created in SBML.sbml_model
    rules,                 \* TabluarQqual.rules: target -> effect -> list of rules
    species_dict,          \* TabluarQqual.species_dict: the species IDs of the table
    calls,                 \* the calls of add_reaction: argument and outcome
    database,              \* the Reaction nodes of the graph database
    access,                \* the access the reactions were collected with, if they were
    collected,             \* the reaction IDs PSSCollector.collect_reactions returned
    public_reactions,      \* PSSAdapter.public_reactions of the adapter without collector
    self_reaction,         \* the Reaction object add_edges is called on
    edge_list,             \* the raw edges handed to Reaction.add_edges
    reported               \* the edges add_edges printed as unclassified

idvars == <<location, species_ids, counters, result>>

adaptervars == <<reactions, additional_reactions, apply_log>>

graphvars == <<graph, previous_graph, bridge>>

fixvars == <<interactive, apply_fixes, max_iterations, pc, part, iteration,
             problematic_nodes, num_fixes_applied, num_applied, pass_log>>

writervars == <<reaction_ids, compartment_ids, sbml_model, rules, species_dict, calls>>

collectvars == <<database, access, collected, public_reactions>>

edgevars == <<self_reaction, edge_list, reported>>

othervars == <<writervars, collectvars, edgevars>>

vars == <<idvars, adaptervars, graphvars, fixvars, othervars>>

None == "None"

-----------------------------------------------------------------------------
(* Bounds of the model.                                                    *)

\* how many species IDs one tracker session assigns
MaxSpecies == 3

\* how many reactions are collected from the database
MaxReactions == 2

\* how many fixes one call of apply_model_fixes is given
MaxFixes == 2

\* how many calls of apply_model_fixes are followed
MaxCalls == 2

\* the values of max_iterations tried besides the default
MaxIterations == 2

-----------------------------------------------------------------------------
(* Vocabulary: reaction_definitions.py and the export configuration.       *)

BINDING_OLIGOMERISATION == "binding/oligomerisation"
CATALYSIS == "catalysis"
PROTEIN_ACTIVATION == "protein activation"
TRANSCRIPTIONAL_TRANSLATIONAL_ACTIVATION == "transcriptional/translational activation"
TRANSCRIPTIONAL_TRANSLATIONAL_REPRESSION == "transcriptional/translational repression"
TRANSLOCATION == "translocation"

TRANSCRIPTIONAL_TRANSLATIONAL ==
    {TRANSCRIPTIONAL_TRANSLATIONAL_ACTIVATION, TRANSCRIPTIONAL_TRANSLATIONAL_REPRESSION}

\* pss_export_config.compartment_to_short (read from the YAML configuration);
\* 'none' is the compartment a tracker without location looks up
compartment_to_short ==
    [c \in {"cytoplasm", "nucleus", "endoplasmic reticulum", "none"} |->
        CASE c = "cytoplasm" -> "cyt"
          [] c = "nucleus" -> "nuc"
          [] c = "endoplasmic reticulum" -> "er"
          [] c = "none" -> "none"]

\* pss_export_config.node_form_to_short (read from the YAML configuration)
node_form_to_short ==
    [f \in {"gene", "protein", "protein_active", "complex", "complex_active"} |->
        CASE f = "gene" -> "g"
          [] f = "protein" -> "p"
          [] f = "protein_active" -> "pa"
          [] f = "complex" -> "c"
          [] f = "complex_active" -> "ca"]

\* what stands for the KeyError a dict raises on a key it does not hold
KeyError == "KeyError"

\* table.get(key, ''): no code is the empty code
getitem_or_empty(table, key) == IF key \in DOMAIN table THEN table[key] ELSE ""

\* table[key] of a dict
getitem(table, key) == IF key \in DOMAIN table THEN table[key] ELSE KeyError

-----------------------------------------------------------------------------
(* Strings.                                                                *)

\* the characters of [0-9a-zA-Z_] that occur in the model's names
AlphaNum == {"N", "M", "K", "x", "1", "_"}

RECURSIVE Join(_)
\* ''.join(chars)
Join(chars) == IF chars = <<>> THEN "" ELSE Head(chars) \o Join(Tail(chars))

\* the positions of '[' in name
OpenBrackets(name) == {i \in 1..Len(name) : name[i] = "["}

Max(S) == CHOOSE m \in S : \A n \in S : n <= m

\* IDTracker.get_display_label: re.match(r"(.*)\[(.*)\]$", name) and its first
\* group; the greedy first group ends before the last '[' of a name ending in ']'
get_display_label(name) ==
    IF Len(name) > 0 /\ name[Len(name)] = "]" /\ OpenBrackets(name) # {}
    THEN SubSeq(name, 1, Max(OpenBrackets(name)) - 1)
    ELSE name

\* IDTracker.remove_nonalphanum: re.sub('[^0-9a-zA-Z_]+', '', name)
remove_nonalphanum(name) == SelectSeq(name, LAMBDA ch : ch \in AlphaNum)

-----------------------------------------------------------------------------
(* Species and IDTracker (entity_classes.py).                              *)

\* compartment.replace("putative:", "") on the compartments of the model
StripPutative(compartment) ==
    CASE compartment = "putative:nucleus" -> "nucleus"
      [] compartment = "putative:cytoplasm" -> "cytoplasm"
      [] compartment = "putative:unknown" -> "unknown"
      [] OTHER -> compartment

\* Species.__init__
Species(name, form, compartment) ==
    [name |-> name,
     form |-> form,
     compartment |-> StripPutative(IF compartment = None \/ compartment = "unknown"
                                   THEN "cytoplasm" ELSE compartment)]

\* the identity key get_species_id and set_species_id share
SpeciesKey(loc, species) ==
    <<species.name, species.form, IF ~loc THEN "none" ELSE species.compartment>>

\* the IDs held in a {key: ID} dict
Values(ids) == {ids[k] : k \in DOMAIN ids}

RECURSIVE Unused(_, _)
\* while id_ in values: id_ += '_1'
Unused(id, values) == IF id \in values THEN Unused(id \o "_1", values) ELSE id

\* the candidate ID of get_species_id, before the uniqueness loop; KeyError
\* when a look-up of the f-string raises it, and get_species_id with it
SpeciesCandidate(loc, species) ==
    LET compartment == getitem(compartment_to_short, SpeciesKey(loc, species)[3])
        form == getitem(node_form_to_short, species.form)
    IN IF compartment = KeyError \/ form = KeyError
       THEN KeyError
       ELSE "s_" \o Join(remove_nonalphanum(get_display_label(species.name)))
                 \o "_" \o compartment \o "_" \o form

\* get_species_id without its uniqueness loop: the candidate is returned as it is
get_species_id_no_loop(loc, ids, species) ==
    IF SpeciesKey(loc, species) \in DOMAIN ids
    THEN [id |-> ids[SpeciesKey(loc, species)], status |-> 1]
    ELSE [id |-> SpeciesCandidate(loc, species), status |-> 0]

\* get_species_id looking the species up under its own compartment whatever the
\* location flag, while set_species_id stores it under 'none'
get_species_id_own_compartment(loc, ids, species) ==
    IF SpeciesKey(TRUE, species) \in DOMAIN ids
    THEN [id |-> ids[SpeciesKey(TRUE, species)], status |-> 1]
    ELSE [id |-> Unused(SpeciesCandidate(loc, species), Values(ids)), status |-> 0]

\* IDTracker.get_species_id on a tracker with this location flag and species_ids
get_species_id(loc, ids, species) ==
    IF SpeciesKey(loc, species) \in DOMAIN ids
    THEN [id |-> ids[SpeciesKey(loc, species)], status |-> 1]
    ELSE [id |-> Unused(SpeciesCandidate(loc, species), Values(ids)), status |-> 0]

\* set_species_id storing the ID under the species' own compartment whatever
\* the location flag
set_species_id_own_compartment(loc, ids, species, id) ==
    [k \in DOMAIN ids \cup {SpeciesKey(TRUE, species)} |->
        IF k = SpeciesKey(TRUE, species) THEN id ELSE ids[k]]

\* IDTracker.set_species_id: species_ids[key] = id_
set_species_id(loc, ids, species, id) ==
    [k \in DOMAIN ids \cup {SpeciesKey(loc, species)} |->
        IF k = SpeciesKey(loc, species) THEN id ELSE ids[k]]


-----------------------------------------------------------------------------
(* Reactions (entity_classes.py) and the reaction graph (model_fixes/      *)
(* graph.py).  A DiGraph is the sequence of its nodes in insertion order   *)
(* and the set of its edges; an edge (u, v) carries one type, the one      *)
(* last written by add_edge.  The label attribute (display only) is left   *)
(* out.                                                                    *)

\* Reaction.__init__ followed by add_substrate, add_product, add_modifier
Reaction(reaction_id, reaction_type, substrates, products, modifiers, export_notes) ==
    [id |-> reaction_id,
     reaction_type |-> reaction_type,
     substrates |-> substrates,
     products |-> products,
     modifiers |-> modifiers,
     export_notes |-> export_notes]

\* nx.DiGraph()
EmptyDiGraph == [nodes |-> <<>>, edges |-> {}]

\* the node IDs of a DiGraph
NodeIds(G) == {G.nodes[i].id : i \in DOMAIN G.nodes}

\* G.nodes[n]: the attributes of node n
NodeData(G, n) == G.nodes[CHOOSE i \in DOMAIN G.nodes : G.nodes[i].id = n]

\* G.add_node(n, **attr): a new node is appended, a known one gets the attributes
AddNode(G, node) ==
    IF node.id \in NodeIds(G)
    THEN [G EXCEPT !.nodes = [i \in DOMAIN G.nodes |->
                                 IF G.nodes[i].id = node.id THEN node ELSE G.nodes[i]]]
    ELSE [G EXCEPT !.nodes = Append(G.nodes, node)]

\* G.add_edge(u, v, type=t): the type of a known edge (u, v) is overwritten
AddEdge(G, u, v, t) ==
    [G EXCEPT !.edges = {e \in G.edges : ~(e.u = u /\ e.v = v)}
                           \cup {[u |-> u, v |-> v, type |-> t]}]

\* the node of a reaction (graph.py lines 23-27)
ReactionNode(reaction) ==
    [id |-> reaction.id, type |-> "reaction", name |-> <<>>, form |-> "reaction",
     compartment |-> None, reaction_type |-> reaction.reaction_type]

\* the node of a species (graph.py lines 31-36)
SpeciesNode(id, species) ==
    [id |-> id, type |-> "species", name |-> species.name, form |-> species.form,
     compartment |-> species.compartment, reaction_type |-> None]

\* one species of a reaction in role substrate, product or modifier: the builder
\* state st holds the tracker's species_ids and the DiGraph
AddParticipant(loc, st, reaction_id, species, role) ==
    LET got == get_species_id(loc, st.ids, species)
        ids1 == IF got.status = 0
                THEN set_species_id(loc, st.ids, species, got.id)
                ELSE st.ids
        G1 == IF got.status = 0
              THEN AddNode(st.G, SpeciesNode(got.id, species))
              ELSE st.G
    IN [ids |-> ids1,
        G |-> IF role = "product"
              THEN AddEdge(G1, reaction_id, got.id, role)
              ELSE AddEdge(G1, got.id, reaction_id, role)]

RECURSIVE AddParticipants(_, _, _, _, _)
\* for species in reaction.<role>s: ...
AddParticipants(loc, st, reaction_id, list, role) ==
    IF list = <<>>
    THEN st
    ELSE AddParticipants(loc, AddParticipant(loc, st, reaction_id, Head(list), role),
                         reaction_id, Tail(list), role)

\* the body of the loop over the reactions in _create_digraph
AddReaction(loc, st, reaction) ==
    LET st0 == [st EXCEPT !.G = AddNode(st.G, ReactionNode(reaction))]
        st1 == AddParticipants(loc, st0, reaction.id, reaction.substrates, "substrate")
        st2 == AddParticipants(loc, st1, reaction.id, reaction.products, "product")
    IN AddParticipants(loc, st2, reaction.id, reaction.modifiers, "modifier")

RECURSIVE AddReactions(_, _, _)
\* for reaction in self.pss_adapter.reactions.values(): ...
AddReactions(loc, st, list) ==
    IF list = <<>>
    THEN st
    ELSE AddReactions(loc, AddReaction(loc, st, Head(list)), Tail(list))

\* Graph._create_digraph
create_digraph(list, loc) ==
    AddReactions(loc, [ids |-> <<>>, G |-> EmptyDiGraph], list).G

\* Graph.__init__
Graph(list, loc) == [location |-> loc, graph |-> create_digraph(list, loc)]

\* Graph.get_species_per_node as the names in order of their first node ...
SpeciesNames(G) ==
    LET isFirst(i) == /\ G.nodes[i].type = "species"
                      /\ \A j \in 1..(i - 1) :
                            ~(G.nodes[j].type = "species" /\ G.nodes[j].name = G.nodes[i].name)
        firsts == SelectSeq([i \in DOMAIN G.nodes |-> i], isFirst)
    IN [k \in DOMAIN firsts |-> G.nodes[firsts[k]].name]

\* ... and species_dict[name]: the species nodes of that name in node order
SpeciesOfName(G, name) ==
    LET named == SelectSeq(G.nodes, LAMBDA nd : nd.type = "species" /\ nd.name = name)
    IN [k \in DOMAIN named |-> named[k].id]

\* the elements of a list
Range(list) == {list[i] : i \in DOMAIN list}

\* Graph._neighbourhood: the neighbours of the nodes in the undirected view
Neighbourhood(G, nodes) ==
    {e.v : e \in {d \in G.edges : d.u \in nodes}} \cup
    {e.u : e \in {d \in G.edges : d.v \in nodes}}

\* G.subgraph(nodes): the induced subgraph
Subgraph(G, nodes) ==
    [nodes |-> SelectSeq(G.nodes, LAMBDA nd : nd.id \in nodes),
     edges |-> {e \in G.edges : e.u \in nodes /\ e.v \in nodes}]

RECURSIVE Reachable(_, _)
\* the nodes joined to a node of the set by a path that ignores direction
Reachable(G, nodes) ==
    LET more == nodes \cup (Neighbourhood(G, nodes) \cap NodeIds(G))
    IN IF more = nodes THEN nodes ELSE Reachable(G, more)

\* nx.weakly_connected_components
WeaklyConnectedComponents(G) == {Reachable(G, {n}) : n \in NodeIds(G)}

\* nx.is_weakly_connected (of a graph with a node)
IsWeaklyConnected(G) == Cardinality(WeaklyConnectedComponents(G)) = 1

\* is_node_connected on the species nodes alone, their neighbours left out
NodeSubgraphSpeciesOnly(G, species) == Subgraph(G, Range(species))

\* Graph.is_node_connected: the subgraph of the species nodes and their neighbours
NodeSubgraph(G, species) ==
    Subgraph(G, Neighbourhood(G, Range(species)) \cup Range(species))

\* find_problematic_nodes with the connectivity of a name tested in the whole
\* graph: a path of any length joins its nodes
find_problematic_nodes_whole_graph(G) ==
    LET entry(name) == [name |-> name,
                        species |-> SpeciesOfName(G, name),
                        subgraph |-> NodeSubgraph(G, SpeciesOfName(G, name))]
        names == SpeciesNames(G)
        all == [k \in DOMAIN names |-> entry(names[k])]
    IN SelectSeq(all, LAMBDA en :
           /\ Len(en.species) > 1
           /\ \E n \in Range(en.species) : ~(Range(en.species) \subseteq Reachable(G, {n})))

\* Graph.find_problematic_nodes: the entries of problematic_nodes in dict order
find_problematic_nodes(G) ==
    LET entry(name) == [name |-> name,
                        species |-> SpeciesOfName(G, name),
                        subgraph |-> NodeSubgraph(G, SpeciesOfName(G, name))]
        names == SpeciesNames(G)
        all == [k \in DOMAIN names |-> entry(names[k])]
    IN SelectSeq(all, LAMBDA en : Len(en.species) > 1 /\ ~IsWeaklyConnected(en.subgraph))

\* the names find_problematic_nodes reports
ProblematicNames(G) ==
    {find_problematic_nodes(G)[i].name : i \in DOMAIN find_problematic_nodes(G)}


-----------------------------------------------------------------------------
(* ModelFixer (model_fixes/model_fixes.py): the fixes it suggests and how  *)
(* it applies them.  A list the code fills while iterating over a Python   *)
(* set has the order of that iteration, which the interpreter's string     *)
(* hashing decides: the suggestions take the iteration orders as           *)
(* arguments.  The transcription/translation reactions of a component are  *)
(* listed in node order: their fixes touch one reaction each.              *)

\* max_iterations=5 (model_fixes.py line 151)
DefaultMaxIterations == 5

FORM_PROTEIN_PRODUCT_ACTIVE == "fix-form:protein-product-active"
FORM_COMPLEX_SUBSTRATE_ACTIVE == "fix-form:complex-substrate-active"
FORM_COMPLEX_PRODUCT_ACTIVE == "fix-form:complex-product-active"
LOC_TRANSPORT_TO_CONSUMED == "fix-loc:transport-to-consumed-compartment"
LOC_TRANSPORT_FROM_PRODUCED == "fix-loc:transport-from-produced-compartment"
LOC_TRANSPORT_PROTEIN_ER_TO_CYT == "fix-loc:protein-er-to-cyt"
LOC_TRANSPORT_FROM_CYT == "fix-loc:from-cyt"

\* ReactionFix.__init__
ReactionFix(reaction_id, species_role, name, new_form, new_location, fix_type) ==
    [kind |-> "ReactionFix", reaction_id |-> reaction_id, species_role |-> species_role,
     name |-> name, new_form |-> new_form, new_location |-> new_location,
     fix_type |-> fix_type]

\* TransportReaction.__init__
TransportReaction(name, form, source_compartment, target_compartment, fix_type) ==
    [kind |-> "TransportReaction", name |-> name, form |-> form,
     source_compartment |-> source_compartment,
     target_compartment |-> target_compartment, fix_type |-> fix_type]

RECURSIVE Concat(_)
\* the lists of a list of lists, one after the other
Concat(lists) == IF lists = <<>> THEN <<>> ELSE Head(lists) \o Concat(Tail(lists))

\* the node IDs of a DiGraph in node order
NodeList(G) == [i \in DOMAIN G.nodes |-> G.nodes[i].id]

\* the forms of the species of the name in a component
FormsIn(subgraph, species, comp) ==
    {NodeData(subgraph, n).form : n \in comp \cap Range(species)}

\* the reactions of a component that are transcription/translation and have a
\* product edge to a species of the name (model_fixes.py lines 333-339)
TranslationReactions(subgraph, species, comp) ==
    SelectSeq(NodeList(subgraph), LAMBDA r :
        /\ r \in comp
        /\ NodeData(subgraph, r).type = "reaction"
        /\ NodeData(subgraph, r).reaction_type \in TRANSCRIPTIONAL_TRANSLATIONAL
        /\ \E e \in subgraph.edges :
              e.u = r /\ e.type = "product" /\ e.v \in Range(species))

\* the reactions of a component that are binding/oligomerisation and have a
\* substrate edge from a species of the name (model_fixes.py lines 368-374)
BindingSubstrateReactions(subgraph, species, comp) ==
    SelectSeq(NodeList(subgraph), LAMBDA r :
        /\ r \in comp
        /\ NodeData(subgraph, r).type = "reaction"
        /\ NodeData(subgraph, r).reaction_type = BINDING_OLIGOMERISATION
        /\ \E e \in subgraph.edges :
              e.v = r /\ e.type = "substrate" /\ e.u \in Range(species))

\* the binding/oligomerisation reactions of the components whose forms are
\* exactly {'complex'} (model_fixes.py lines 402-413)
ComplexBindingReactions(subgraph, species) ==
    SelectSeq(NodeList(subgraph), LAMBDA r :
        /\ NodeData(subgraph, r).type = "reaction"
        /\ NodeData(subgraph, r).reaction_type = BINDING_OLIGOMERISATION
        /\ FormsIn(subgraph, species, Reachable(subgraph, {r})) = {"complex"})

\* one retarget per reaction of the list, to the plain form 'protein'
FormFixesToProtein(list, role, node_name, new_form, fix_type) ==
    [i \in DOMAIN list |-> ReactionFix(list[i], role, node_name, "protein", None, fix_type)]

\* one retarget of the form to new_form per reaction of the list
FormFixes(list, role, node_name, new_form, fix_type) ==
    [i \in DOMAIN list |-> ReactionFix(list[i], role, node_name, new_form, None, fix_type)]

\* _suggest_fixes_form looking for its patterns whatever the number of components
suggest_fixes_form_any_components(node_name, species, subgraph) ==
    LET components == WeaklyConnectedComponents(subgraph)
        comp_forms == {FormsIn(subgraph, species, comp) : comp \in components}
        protein_comp ==
            CHOOSE comp \in components :
                FormsIn(subgraph, species, comp) =
                    IF {"protein"} \in comp_forms THEN {"protein"} ELSE {"gene", "protein"}
        translation_reactions == TranslationReactions(subgraph, species, protein_comp)
        binding_reactions == BindingSubstrateReactions(subgraph, species, protein_comp)
    IN IF /\ {"protein"} \in comp_forms \/ {"gene", "protein"} \in comp_forms
          /\ {"protein_active"} \in comp_forms \/ {"gene", "protein_active"} \in comp_forms
       THEN IF translation_reactions # <<>>
            THEN FormFixes(translation_reactions, "product", node_name, "protein_active",
                           FORM_PROTEIN_PRODUCT_ACTIVE)
            ELSE FormFixes(binding_reactions, "substrate", node_name, "protein_active",
                           FORM_COMPLEX_SUBSTRATE_ACTIVE)
       ELSE IF {"complex"} \in comp_forms /\ {"complex_active"} \in comp_forms
       THEN FormFixes(ComplexBindingReactions(subgraph, species), "product", node_name,
                      "complex_active", FORM_COMPLEX_PRODUCT_ACTIVE)
       ELSE <<>>

\* _suggest_fixes_form taking both options of the protein pattern together
suggest_fixes_form_both_options(node_name, species, subgraph) ==
    LET components == WeaklyConnectedComponents(subgraph)
        comp_forms == {FormsIn(subgraph, species, comp) : comp \in components}
        protein_comp ==
            CHOOSE comp \in components :
                FormsIn(subgraph, species, comp) =
                    IF {"protein"} \in comp_forms THEN {"protein"} ELSE {"gene", "protein"}
        translation_reactions == TranslationReactions(subgraph, species, protein_comp)
        binding_reactions == BindingSubstrateReactions(subgraph, species, protein_comp)
    IN IF Cardinality(components) > 2
       THEN <<>>
       ELSE IF /\ {"protein"} \in comp_forms \/ {"gene", "protein"} \in comp_forms
               /\ {"protein_active"} \in comp_forms \/ {"gene", "protein_active"} \in comp_forms
       THEN FormFixes(translation_reactions, "product", node_name, "protein_active",
                      FORM_PROTEIN_PRODUCT_ACTIVE)
            \o FormFixes(binding_reactions, "substrate", node_name, "protein_active",
                         FORM_COMPLEX_SUBSTRATE_ACTIVE)
       ELSE IF {"complex"} \in comp_forms /\ {"complex_active"} \in comp_forms
       THEN FormFixes(ComplexBindingReactions(subgraph, species), "product", node_name,
                      "complex_active", FORM_COMPLEX_PRODUCT_ACTIVE)
       ELSE <<>>

\* ModelFixer._suggest_fixes_form
suggest_fixes_form(node_name, species, subgraph) ==
    LET components == WeaklyConnectedComponents(subgraph)
        comp_forms == {FormsIn(subgraph, species, comp) : comp \in components}
        protein_comp ==
            CHOOSE comp \in components :
                FormsIn(subgraph, species, comp) =
                    IF {"protein"} \in comp_forms THEN {"protein"} ELSE {"gene", "protein"}
        translation_reactions == TranslationReactions(subgraph, species, protein_comp)
        binding_reactions == BindingSubstrateReactions(subgraph, species, protein_comp)
    IN IF Cardinality(components) > 2
       THEN <<>>
       ELSE IF /\ {"protein"} \in comp_forms \/ {"gene", "protein"} \in comp_forms
               /\ {"protein_active"} \in comp_forms \/ {"gene", "protein_active"} \in comp_forms
       THEN IF translation_reactions # <<>>
            THEN FormFixes(translation_reactions, "product", node_name, "protein_active",
                           FORM_PROTEIN_PRODUCT_ACTIVE)
            ELSE FormFixes(binding_reactions, "substrate", node_name, "protein_active",
                           FORM_COMPLEX_SUBSTRATE_ACTIVE)
       ELSE IF {"complex"} \in comp_forms /\ {"complex_active"} \in comp_forms
       THEN FormFixes(ComplexBindingReactions(subgraph, species), "product", node_name,
                      "complex_active", FORM_COMPLEX_PRODUCT_ACTIVE)
       ELSE <<>>

\* the elements of a set in the order ord lists them
ListOf(S, ord) == SelectSeq(ord, LAMBDA c : c \in S)

\* the forms of the species of the name, in the order forms_dict receives them
FormsDict(subgraph, species) ==
    LET forms == [i \in DOMAIN species |-> NodeData(subgraph, species[i]).form]
    IN SelectSeq([i \in DOMAIN forms |->
                     IF \E j \in 1..(i - 1) : forms[j] = forms[i] THEN None ELSE forms[i]],
                 LAMBDA f : f # None)

\* the compartments where a species of form_species is the product of a
\* reaction that is a translocation (transport = TRUE) or is none
ProducingCompartments(subgraph, form_species, transport) ==
    {NodeData(subgraph, e.v).compartment :
        e \in {e \in subgraph.edges :
                 /\ NodeData(subgraph, e.u).type = "reaction"
                 /\ (NodeData(subgraph, e.u).reaction_type = TRANSLOCATION) = transport
                 /\ e.type = "product"
                 /\ e.v \in form_species}}

\* the compartments where a species of form_species is substrate
SubstrateCompartments(subgraph, form_species) ==
    {NodeData(subgraph, e.u).compartment :
        e \in {e \in subgraph.edges :
                 /\ NodeData(subgraph, e.v).type = "reaction"
                 /\ e.type = "substrate"
                 /\ e.u \in form_species}}

\* the compartments where a species of form_species is substrate or modifier
ConsumingCompartments(subgraph, form_species) ==
    {NodeData(subgraph, e.u).compartment :
        e \in {e \in subgraph.edges :
                 /\ NodeData(subgraph, e.v).type = "reaction"
                 /\ e.type \in {"substrate", "modifier"}
                 /\ e.u \in form_species}}

\* one transport of the form from source to each of the targets
TransportsTo(node_name, form, source, targets, fix_type) ==
    [i \in DOMAIN targets |-> TransportReaction(node_name, form, source, targets[i], fix_type)]

\* the body of the loop over forms_dict: the fixes of one form, and
\* fix_identified after it.  The orders are the iteration orders of the sets
\* of consuming and of producing compartments; found is fix_identified.
SuggestLocationOfForm(node_name, form, subgraph, species, found, orders) ==
    LET fix_identified == found
        consuming_order == orders[1]
        producing_order == orders[2]
        form_species == {s \in Range(species) : NodeData(subgraph, s).form = form}
        locations == {s \in form_species : NodeData(subgraph, s).compartment # None}
        location_values == {NodeData(subgraph, s).compartment : s \in locations}
        produced == ProducingCompartments(subgraph, form_species, FALSE)
        transport_producing_compartments == ProducingCompartments(subgraph, form_species, TRUE)
        consuming_compartments == ConsumingCompartments(subgraph, form_species)
        need_to_transport_to ==
            SelectSeq(ListOf(consuming_compartments, consuming_order), LAMBDA c :
                c \notin produced /\ c \notin transport_producing_compartments)
        to_consumed == need_to_transport_to # <<>> /\ Cardinality(produced) = 1
        \* producing_compartments.pop() takes the source out of the set
        producing_compartments == IF to_consumed THEN {} ELSE produced
        fixes_to_consumed ==
            IF to_consumed
            THEN TransportsTo(node_name, form, CHOOSE c \in produced : TRUE,
                              need_to_transport_to, LOC_TRANSPORT_TO_CONSUMED)
            ELSE <<>>
        need_to_transport_from ==
            SelectSeq(ListOf(producing_compartments, producing_order), LAMBDA c :
                c \notin consuming_compartments)
        target_compartments ==
            SelectSeq(ListOf(consuming_compartments, consuming_order), LAMBDA c :
                c \notin producing_compartments /\ c \notin transport_producing_compartments)
        fixes_from_produced ==
            IF need_to_transport_from # <<>> /\ consuming_compartments # {}
            THEN Concat([t \in DOMAIN target_compartments |->
                    [i \in DOMAIN need_to_transport_from |->
                        TransportReaction(node_name, form, need_to_transport_from[i],
                                          target_compartments[t],
                                          LOC_TRANSPORT_FROM_PRODUCED)]])
            ELSE <<>>
        identified == fix_identified \/ fixes_to_consumed # <<>> \/ fixes_from_produced # <<>>
        from_cytoplasm ==
            SelectSeq(ListOf(consuming_compartments, consuming_order), LAMBDA c :
                c # "cytoplasm" /\ c \notin transport_producing_compartments)
        fallback ==
            IF identified
            THEN <<>>
            ELSE IF form \in {"protein", "protein_active"}
                    /\ "endoplasmic reticulum" \in location_values
            THEN IF "cytoplasm" \in consuming_compartments
                 THEN <<TransportReaction(node_name, form, "endoplasmic reticulum",
                                          "cytoplasm", LOC_TRANSPORT_PROTEIN_ER_TO_CYT)>>
                 ELSE <<>>
            ELSE IF "cytoplasm" \in location_values
            THEN TransportsTo(node_name, form, "cytoplasm", from_cytoplasm,
                              LOC_TRANSPORT_FROM_CYT)
            ELSE <<>>
    IN IF Cardinality(locations) <= 1
       THEN [fixes |-> <<>>, fix_identified |-> fix_identified]
       ELSE [fixes |-> fixes_to_consumed \o fixes_from_produced \o fallback,
             fix_identified |-> identified \/ fallback # <<>>]

RECURSIVE SuggestLocationOfForms(_, _, _, _, _, _)
\* the loop over forms_dict (model_fixes.py lines 456-659)
SuggestLocationOfForms(node_name, forms, subgraph, species, found, orders) ==
    IF forms = <<>>
    THEN <<>>
    ELSE LET first == SuggestLocationOfForm(node_name, Head(forms), subgraph, species,
                                            found, orders)
         IN first.fixes \o
            SuggestLocationOfForms(node_name, Tail(forms), subgraph, species,
                                   first.fix_identified, orders)

\* ModelFixer._suggest_fixes_location
suggest_fixes_location(node_name, species, subgraph, consuming_order, producing_order) ==
    SuggestLocationOfForms(node_name, FormsDict(subgraph, species), subgraph, species,
                           FALSE, <<consuming_order, producing_order>>)

\* a Python value that counts as true: neither None nor the empty str
Truthy(x) == x # None /\ x # ""

\* the IDs of a list of reactions: the keys of pss_adapter.reactions
ReactionIds(list) == {list[i].id : i \in DOMAIN list}

\* getattr(reaction, fix.species_role + 's', [])
SpeciesList(reaction, species_role) ==
    IF species_role = "substrate" THEN reaction.substrates
    ELSE IF species_role = "product" THEN reaction.products
    ELSE IF species_role = "modifier" THEN reaction.modifiers
    ELSE <<>>

\* a species left as it is
RetargetNothing(species, fix) == species

\* the body of the loop over species_list (model_fixes.py lines 712-722)
Retarget(species, fix) ==
    IF species.name # fix.name THEN species
    ELSE IF Truthy(fix.new_form) THEN [species EXCEPT !.form = fix.new_form]
    ELSE IF Truthy(fix.new_location) THEN [species EXCEPT !.compartment = fix.new_location]
    ELSE species

\* apply_model_fixes on a ReactionFix with the tag of the fix put in the
\* place of the export notes
ApplyReactionFixReplacingNotes(st, fix) ==
    IF fix.reaction_id \notin ReactionIds(st.reactions)
    THEN st
    ELSE LET i == CHOOSE i \in DOMAIN st.reactions : st.reactions[i].id = fix.reaction_id
             reaction == st.reactions[i]
             species_list == SpeciesList(reaction, fix.species_role)
             new_list == [k \in DOMAIN species_list |-> Retarget(species_list[k], fix)]
             retargeted ==
                 IF fix.species_role = "substrate" THEN [reaction EXCEPT !.substrates = new_list]
                 ELSE IF fix.species_role = "product" THEN [reaction EXCEPT !.products = new_list]
                 ELSE IF fix.species_role = "modifier" THEN [reaction EXCEPT !.modifiers = new_list]
                 ELSE reaction
             matching == {k \in DOMAIN species_list : species_list[k].name = fix.name}
         IN [st EXCEPT !.reactions[i] = [retargeted EXCEPT !.export_notes = fix.fix_type],
                       !.num_fixes_applied = @ + Cardinality(matching)]

\* apply_model_fixes on a ReactionFix: st holds the adapter's reactions and
\* additional_reactions and num_fixes_applied
ApplyReactionFix(st, fix) ==
    IF fix.reaction_id \notin ReactionIds(st.reactions)
    THEN st
    ELSE LET i == CHOOSE i \in DOMAIN st.reactions : st.reactions[i].id = fix.reaction_id
             reaction == st.reactions[i]
             species_list == SpeciesList(reaction, fix.species_role)
             new_list == [k \in DOMAIN species_list |-> Retarget(species_list[k], fix)]
             retargeted ==
                 IF fix.species_role = "substrate" THEN [reaction EXCEPT !.substrates = new_list]
                 ELSE IF fix.species_role = "product" THEN [reaction EXCEPT !.products = new_list]
                 ELSE IF fix.species_role = "modifier" THEN [reaction EXCEPT !.modifiers = new_list]
                 ELSE reaction
             matching == {k \in DOMAIN species_list : species_list[k].name = fix.name}
         IN [st EXCEPT !.reactions[i] =
                           [retargeted EXCEPT !.export_notes = @ \o fix.fix_type],
                       !.num_fixes_applied = @ + Cardinality(matching)]

\* the ID of the reaction a TransportReaction stands for (model_fixes.py lines
\* 729-730); KeyError when a look-up of the f-string raises it
TransportId(fix) ==
    LET form == getitem(node_form_to_short, fix.form)
        source == getitem(compartment_to_short, fix.source_compartment)
        target == getitem(compartment_to_short, fix.target_compartment)
    IN IF KeyError \in {form, source, target}
       THEN KeyError
       ELSE "transport_" \o Join(remove_nonalphanum(get_display_label(fix.name)))
                \o "_" \o form \o "_" \o source \o "_to_" \o target

\* the reaction a TransportReaction stands for (model_fixes.py lines 739-747)
NewTransport(fix) ==
    Reaction(TransportId(fix), TRANSLOCATION,
             <<Species(fix.name, fix.form, fix.source_compartment)>>,
             <<Species(fix.name, fix.form, fix.target_compartment)>>,
             <<>>, fix.fix_type)

\* apply_model_fixes on a TransportReaction listing the ID among the
\* additional reactions also when the reaction is there already
ApplyTransportReactionListedAlways(st, fix) ==
    IF TransportId(fix) = KeyError
    THEN [st EXCEPT !.raised = KeyError]
    ELSE IF TransportId(fix) \in ReactionIds(st.reactions)
    THEN [st EXCEPT !.additional_reactions = Append(@, TransportId(fix))]
    ELSE [st EXCEPT !.reactions = Append(@, NewTransport(fix)),
                    !.additional_reactions = Append(@, TransportId(fix)),
                    !.num_fixes_applied = @ + 1]

\* apply_model_fixes on a TransportReaction without the look-up of the ID
ApplyTransportReactionUnchecked(st, fix) ==
    [st EXCEPT !.reactions = Append(@, NewTransport(fix)),
               !.additional_reactions = Append(@, TransportId(fix)),
               !.num_fixes_applied = @ + 1]

\* apply_model_fixes on a TransportReaction; the f-string of the ID is
\* evaluated first (line 730), a KeyError of it ends the call
ApplyTransportReaction(st, fix) ==
    IF TransportId(fix) = KeyError
    THEN [st EXCEPT !.raised = KeyError]
    ELSE IF TransportId(fix) \in ReactionIds(st.reactions)
    THEN st
    ELSE [st EXCEPT !.reactions = Append(@, NewTransport(fix)),
                    !.additional_reactions = Append(@, TransportId(fix)),
                    !.num_fixes_applied = @ + 1]

RECURSIVE ApplyFixes(_, _)
\* for fix in fixes: ...
ApplyFixes(st, fixes) ==
    IF fixes = <<>> \/ st.raised # None
    THEN st
    ELSE ApplyFixes(IF Head(fixes).kind = "ReactionFix"
                    THEN ApplyReactionFix(st, Head(fixes))
                    ELSE ApplyTransportReaction(st, Head(fixes)),
                    Tail(fixes))

\* ModelFixer.apply_model_fixes: the adapter's collections after the call, the
\* number returned and the exception raised, if one was
apply_model_fixes(list, additional, fixes) ==
    ApplyFixes([reactions |-> list, additional_reactions |-> additional,
                num_fixes_applied |-> 0, raised |-> None], fixes)

-----------------------------------------------------------------------------
(* Reaction.add_edges (entity_classes.py).  A raw edge is the record of    *)
(* its type, the names of its start and end node and its four properties;  *)
(* reported is what the method prints of the edges it does not know.       *)

\* Species(name, form, location) of the source or the target of an edge
EdgeSpecies(edge, key) ==
    IF key = "source"
    THEN Species(edge.start_node, edge.source_form, edge.source_location)
    ELSE Species(edge.end_node, edge.target_form, edge.target_location)

\* one turn of the loop of add_edges with substrates of
\* transcriptional/translational reactions kept whatever include_genes
add_edge_with_genes(st, edge) ==
    IF edge.type \in {"SUBSTRATE", "TRANSLOCATE_FROM"}
    THEN [st EXCEPT !.reaction.substrates = Append(@, EdgeSpecies(edge, "source"))]
    ELSE IF edge.type \in {"PRODUCT", "TRANSLOCATE_TO"}
    THEN [st EXCEPT !.reaction.products = Append(@, EdgeSpecies(edge, "target"))]
    ELSE IF edge.type \in {"INHIBITS", "ACTIVATES"}
    THEN IF edge.source_form = "condition" /\ ~st.reaction.include_conditions
         THEN st
         ELSE [st EXCEPT !.reaction.modifiers = Append(@, EdgeSpecies(edge, "source"))]
    ELSE [st EXCEPT !.reported = Append(@, edge.type)]

\* one turn of the loop of add_edges (lines 45-85): st holds the reaction and
\* what was printed
add_edge(st, edge) ==
    IF edge.type \in {"SUBSTRATE", "TRANSLOCATE_FROM"}
    THEN IF st.reaction.reaction_type \in TRANSCRIPTIONAL_TRANSLATIONAL
            /\ ~st.reaction.include_genes
         THEN st
         ELSE [st EXCEPT !.reaction.substrates = Append(@, EdgeSpecies(edge, "source"))]
    ELSE IF edge.type \in {"PRODUCT", "TRANSLOCATE_TO"}
    THEN [st EXCEPT !.reaction.products = Append(@, EdgeSpecies(edge, "target"))]
    ELSE IF edge.type \in {"INHIBITS", "ACTIVATES"}
    THEN IF edge.source_form = "condition" /\ ~st.reaction.include_conditions
         THEN st
         ELSE [st EXCEPT !.reaction.modifiers = Append(@, EdgeSpecies(edge, "source"))]
    ELSE [st EXCEPT !.reported = Append(@, edge.type)]

RECURSIVE add_edges(_, _)
\* Reaction.add_edges: for path in edge_list: ...
add_edges(st, list) ==
    IF list = <<>> THEN st ELSE add_edges(add_edge(st, Head(list)), Tail(list))

-----------------------------------------------------------------------------
(* The SBML writer (sbml/sbml_api.py), an IDTracker with location True.    *)
(* A writer w is the record of its registries, the elements created in its *)
(* model, the ID its last get_ method returned and the exception raised,   *)
(* if one was.  libSBML calls are taken to succeed; SBO terms, notes,      *)
(* annotations and stoichiometry are left out.                             *)

OUTSIDE_COMPARTMENTS == {"cytoplasm", "extracellular"}

\* IDTracker.create_compartment_id; KeyError when the look-up raises it
create_compartment_id(ids, compartment) ==
    IF getitem(compartment_to_short, compartment) = KeyError
    THEN KeyError
    ELSE Unused("c_" \o getitem(compartment_to_short, compartment), Values(ids))

\* IDTracker.get_compartment_id
get_compartment_id(ids, compartment) ==
    IF compartment \in DOMAIN ids
    THEN [id |-> ids[compartment], status |-> 1]
    ELSE [id |-> create_compartment_id(ids, compartment), status |-> 0]

\* dict[key] = value
SetItem(dict, key, value) ==
    [k \in DOMAIN dict \cup {key} |-> IF k = key THEN value ELSE dict[k]]

\* the end of get_sbml_compartment (lines 144-149), once the outside
\* compartment is there
place_compartment(compartment, got, outside) ==
    IF outside.raised # None THEN outside
    ELSE [outside EXCEPT !.compartment_ids = SetItem(@, compartment, got.id),
                         !.counters.compartment = @ + 1,
                         !.id = got.id]

RECURSIVE get_sbml_compartment(_, _)
RECURSIVE create_sbml_compartment(_, _, _)
\* get_sbml_compartment after its look-up of the ID: a compartment other than
\* the outside ones gets the cytoplasm as its outside, which is looked up or
\* created in turn
create_sbml_compartment(w, compartment, got) ==
    LET created == [w EXCEPT !.sbml_model.compartments = Append(@, got.id)]
    IN IF got.id = KeyError THEN [w EXCEPT !.raised = KeyError]
       ELSE IF got.status = 1 THEN [w EXCEPT !.id = got.id]
       ELSE place_compartment(compartment, got,
                              IF compartment \in OUTSIDE_COMPARTMENTS
                              THEN created
                              ELSE get_sbml_compartment(created, "cytoplasm"))

\* SBML.get_sbml_compartment
get_sbml_compartment(w, compartment) ==
    create_sbml_compartment(w, compartment,
                            get_compartment_id(w.compartment_ids, compartment))

\* the end of get_sbml_species (lines 119-125), once the compartment is there
place_species(w, species, got, placed) ==
    IF placed.raised # None THEN placed
    ELSE [placed EXCEPT
             !.species_ids = set_species_id(w.location, @, species, got.id),
             !.counters.species = @ + 1,
             !.id = got.id]

\* get_sbml_species after its look-up of the ID
create_sbml_species(w, species, got) ==
    IF got.id = KeyError THEN [w EXCEPT !.raised = KeyError]
    ELSE IF got.status = 1 THEN [w EXCEPT !.id = got.id]
    ELSE place_species(w, species, got,
                       get_sbml_compartment(
                           [w EXCEPT !.sbml_model.species = Append(@, got.id)],
                           species.compartment))

\* SBML.get_sbml_species
get_sbml_species(w, species) ==
    create_sbml_species(w, species, get_species_id(w.location, w.species_ids, species))

\* the reference to the species got is added to the reaction element
\* created last
add_reference(got, list) ==
    LET n == Len(got.sbml_model.reactions)
    IN IF got.raised # None THEN got
       ELSE IF list = "reactants"
       THEN [got EXCEPT !.sbml_model.reactions[n].reactants = Append(@, got.id)]
       ELSE IF list = "products"
       THEN [got EXCEPT !.sbml_model.reactions[n].products = Append(@, got.id)]
       ELSE [got EXCEPT !.sbml_model.reactions[n].modifiers = Append(@, got.id)]

\* SBML.create_reactant_reference, create_product_reference and
\* create_modifier_reference
create_reference(w, species, list) == add_reference(get_sbml_species(w, species), list)

RECURSIVE create_references(_, _, _)
\* for species in reaction.<list>: self.create_..._reference(species, ...)
create_references(w, species_list, list) ==
    IF species_list = <<>> \/ w.raised # None
    THEN w
    ELSE create_references(create_reference(w, Head(species_list), list),
                           Tail(species_list), list)

\* SBML.create_sbml_reaction
create_sbml_reaction(w, reaction) ==
    [w EXCEPT !.sbml_model.reactions =
                  Append(@, [id |-> reaction.id, reactants |-> <<>>, products |-> <<>>,
                             modifiers |-> <<>>]),
              !.reaction_ids = SetItem(@, reaction.id, reaction.id),
              !.counters.reaction = @ + 1]

\* add_reaction without the look-up of the reaction ID
sbml_add_reaction_unchecked(w, reaction) ==
    LET rxn == create_sbml_reaction(w, reaction)
        substrates == create_references(rxn, reaction.substrates, "reactants")
        products == create_references(substrates, reaction.products, "products")
    IN [create_references(products, reaction.modifiers, "modifiers") EXCEPT
           !.returned = None]

\* SBML.add_reaction: the writer after the call, with what it returned, '-1'
\* for the int -1
sbml_add_reaction(w, reaction) ==
    LET rxn == create_sbml_reaction(w, reaction)
        substrates == create_references(rxn, reaction.substrates, "reactants")
        products == create_references(substrates, reaction.products, "products")
    IN IF reaction.id \in DOMAIN w.reaction_ids
       THEN [w EXCEPT !.returned = "-1"]
       ELSE [create_references(products, reaction.modifiers, "modifiers") EXCEPT
                !.returned = None]

-----------------------------------------------------------------------------
(* The TabularQual writer (boolean/tabularqual_api.py and boolean.py), an  *)
(* IDTracker with location True.  A rule joins the members of a Python     *)
(* set, whose iteration order is an argument.                              *)

RECURSIVE JoinWith(_, _)
\* sep.join(list)
JoinWith(sep, list) ==
    IF list = <<>> THEN ""
    ELSE IF Len(list) = 1 THEN Head(list)
    ELSE Head(list) \o sep \o JoinWith(sep, Tail(list))

\* the types reaction_rule_constructor knows for an effect (boolean.py lines 34-54)
RuleTypes(effect) ==
    IF effect = "activation"
    THEN {"binding/oligomerisation", "dissociation", "catalysis", "protein activation",
          "transcriptional/translational activation", "translocation", "unknown",
          "cleavage/auto-cleavage"}
    ELSE IF effect = "inhibition"
    THEN {"binding/oligomerisation", "degradation/secretion", "protein deactivation",
          "transcriptional/translational repression", "unknown"}
    ELSE {}

\* get_tabularqual_species after its look-up of the ID (lines 96-123)
add_tabularqual_species(w, species, got) ==
    IF got.id = KeyError THEN [w EXCEPT !.raised = KeyError]
    ELSE IF got.status = 1 THEN w
    ELSE [w EXCEPT !.species_ids = set_species_id(w.location, @, species, got.id),
                   !.counters.species = @ + 1,
                   !.species_dict = SetItem(@, got.id, species)]

RECURSIVE get_tabularqual_species(_, _)
\* TabluarQqual.get_tabularqual_species for the species of a list, one after
\* the other (tabularqual_api.py lines 93-123 and 253-267)
get_tabularqual_species(w, species_list) ==
    IF species_list = <<>> \/ w.raised # None THEN w
    ELSE get_tabularqual_species(
             add_tabularqual_species(w, Head(species_list),
                 get_species_id(w.location, w.species_ids, Head(species_list))),
             Tail(species_list))

\* rule_constructor(reaction): the targets and the rule, None when there is
\* none (boolean.py lines 70-195); ids are the IDs set on the species
reaction_rule(reaction, ids, order) ==
    LET id_set(list) == {ids[SpeciesKey(TRUE, list[i])] : i \in DOMAIN list}
        s_set == id_set(reaction.substrates)
        p_set == id_set(reaction.products)
        m_set == id_set(reaction.modifiers)
        by_modifiers == reaction.reaction_type \in
            {"transcriptional/translational activation", "degradation/secretion",
             "protein deactivation", "transcriptional/translational repression"}
            \/ (reaction.reaction_type = "unknown" /\ reaction.reaction_effect = "inhibition")
        factors == IF by_modifiers THEN m_set ELSE s_set \cup m_set
        on_substrates == reaction.reaction_effect = "inhibition" /\ reaction.reaction_type #
                             "transcriptional/translational repression"
        joined == JoinWith(" & ", ListOf(factors, order))
    IN [targets |-> IF on_substrates THEN s_set ELSE p_set,
        rule |-> IF factors = {} THEN None
                 ELSE IF reaction.reaction_effect = "inhibition"
                 THEN "!(" \o joined \o ")"
                 ELSE joined]

\* self.rules[target][effect].append(rule) for the targets of a set
AppendRule(dict, targets, effect, rule) ==
    [t \in DOMAIN dict \cup targets |->
        LET old == IF t \in DOMAIN dict THEN dict[t]
                   ELSE [activation |-> <<>>, inhibition |-> <<>>]
        IN IF t \notin targets THEN old
           ELSE IF effect = "activation" THEN [old EXCEPT !.activation = Append(@, rule)]
           ELSE [old EXCEPT !.inhibition = Append(@, rule)]]

\* add_reaction once the species are there (lines 269-284)
add_rule(registered, reaction, made) ==
    IF registered.raised # None THEN registered
    ELSE IF reaction.reaction_type \notin RuleTypes(reaction.reaction_effect)
    THEN [registered EXCEPT !.returned = "-1"]
    ELSE IF made.rule = None THEN registered
    ELSE [registered EXCEPT
             !.rules = AppendRule(@, made.targets, reaction.reaction_effect, made.rule)]

\* add_reaction behind its test of the reaction ID
add_species_and_rule(registered, reaction, order) ==
    add_rule(registered, reaction,
             IF registered.raised # None THEN [targets |-> {}, rule |-> None]
             ELSE reaction_rule(reaction, registered.species_ids, order))

\* TabluarQqual.add_reaction: the writer after the call, with what it
\* returned, '-1' for the int -1
tabularqual_add_reaction(w, reaction, order) ==
    IF reaction.id \in DOMAIN w.reaction_ids THEN [w EXCEPT !.returned = "-1"]
    ELSE add_species_and_rule(
             get_tabularqual_species(
                 get_tabularqual_species(
                     get_tabularqual_species(w, reaction.substrates),
                     reaction.products),
                 reaction.modifiers),
             reaction, order)

-----------------------------------------------------------------------------
(* The reactions collected from the database: any sequence of at most      *)
(* MaxReactions distinct reactions of a pool over three species names.      *)

NameN == <<"N">>
NameNdash == <<"N", "-">>
NameNbracket == <<"N", "[", "x", "]">>
NameM == <<"M">>
NameK == <<"K">>

N_protein_nucleus == Species(NameN, "protein", "nucleus")
N_protein_cytoplasm == Species(NameN, "protein", "cytoplasm")
N_active_nucleus == Species(NameN, "protein_active", "nucleus")
N_active_cytoplasm == Species(NameN, "protein_active", "cytoplasm")
M_protein_cytoplasm == Species(NameM, "protein", "cytoplasm")
M_active_cytoplasm == Species(NameM, "protein_active", "cytoplasm")
K_protein_cytoplasm == Species(NameK, "protein", "cytoplasm")
K_active_cytoplasm == Species(NameK, "protein_active", "cytoplasm")

ReactionPool ==
    { \* translation of N in the nucleus
      Reaction("rx1", TRANSCRIPTIONAL_TRANSLATIONAL_ACTIVATION,
               <<>>, <<N_protein_nucleus>>, <<>>, ""),
      \* catalyses with active N as modifier, in the nucleus and in the cytoplasm
      Reaction("rx2", CATALYSIS, <<>>, <<>>, <<N_active_nucleus>>, ""),
      Reaction("rx3", CATALYSIS, <<N_protein_cytoplasm>>, <<>>, <<>>, ""),
      Reaction("rx4", CATALYSIS, <<>>, <<>>, <<N_active_cytoplasm>>, ""),
      \* N and M regulate the translation of each other
      Reaction("rx5", TRANSCRIPTIONAL_TRANSLATIONAL_ACTIVATION,
               <<>>, <<M_protein_cytoplasm>>, <<N_active_nucleus>>, ""),
      Reaction("rx6", TRANSCRIPTIONAL_TRANSLATIONAL_REPRESSION,
               <<>>, <<N_protein_nucleus>>, <<M_active_cytoplasm>>, ""),
      \* N and M bind
      Reaction("rx7", BINDING_OLIGOMERISATION,
               <<N_protein_cytoplasm, M_protein_cytoplasm>>, <<>>, <<>>, ""),
      \* N moves from the nucleus to the cytoplasm
      Reaction("rx8", TRANSLOCATION,
               <<N_protein_nucleus>>, <<N_protein_cytoplasm>>, <<>>, ""),
      \* one operon translated to N, M and K, which together catalyse
      Reaction("rx9", TRANSCRIPTIONAL_TRANSLATIONAL_ACTIVATION, <<>>,
               <<N_protein_nucleus, M_protein_cytoplasm, K_protein_cytoplasm>>, <<>>, ""),
      Reaction("rx10", CATALYSIS, <<>>, <<>>,
               <<N_active_nucleus, M_active_cytoplasm, K_active_cytoplasm>>, "") }

\* the lists without repetition of at most n elements of S
ListsOf(S, n) ==
    {list \in UNION {[1..k -> S] : k \in 0..n} :
        \A i \in DOMAIN list : \A j \in DOMAIN list : i # j => list[i] # list[j]}

Collections == ListsOf(ReactionPool, MaxReactions)

\* the orders in which a dict of these reactions can be filled
Orders(list) == {o \in ListsOf(Range(list), Len(list)) : Len(o) = Len(list)}

NoBridge == [u |-> None, v |-> None, type |-> None]

\* no reactions are collected
IdleAdapter ==
    /\ reactions = <<>>
    /\ additional_reactions = <<>>
    /\ apply_log = <<>>

\* no graph is under examination
IdleGraph ==
    /\ graph = Graph(<<>>, TRUE)
    /\ previous_graph = Graph(<<>>, TRUE)
    /\ bridge = NoBridge

\* no tracker session is under way
IdleIds ==
    /\ location = TRUE
    /\ species_ids = <<>>
    /\ counters = [species_type |-> 0, species |-> 0, reaction |-> 0, compartment |-> 0]
    /\ result = [species |-> N_protein_cytoplasm, id |-> None, status |-> -1]

\* identify_model_fixes is not running
IdleFixer ==
    /\ interactive = FALSE
    /\ apply_fixes = TRUE
    /\ max_iterations = DefaultMaxIterations
    /\ pc = "idle"
    /\ part = "form"
    /\ iteration = 0
    /\ problematic_nodes = <<>>
    /\ num_fixes_applied = 0
    /\ num_applied = [form |-> 0, location |-> 0]
    /\ pass_log = <<>>

\* sbml_model = self.createModel(): a model without elements
EmptyModel == [reactions |-> <<>>, species |-> <<>>, compartments |-> <<>>]

\* no writer has been constructed
IdleWriter ==
    /\ reaction_ids = <<>>
    /\ compartment_ids = <<>>
    /\ sbml_model = EmptyModel
    /\ rules = <<>>
    /\ species_dict = <<>>
    /\ calls = <<>>

\* nothing is collected from the database
IdleCollect ==
    /\ database = <<>>
    /\ access = None
    /\ collected = <<>>
    /\ public_reactions = <<>>

\* no Reaction is under construction
IdleEdges ==
    /\ self_reaction = Reaction(None, None, <<>>, <<>>, <<>>, "")
    /\ edge_list = <<>>
    /\ reported = <<>>

\* the parts of the program that the tracker, graph and fixer runs leave alone
IdleOther == IdleWriter /\ IdleCollect /\ IdleEdges

-----------------------------------------------------------------------------
(* A tracker session: species are resolved one after the other, each by    *)
(* get_species_id followed, on status 0, by set_species_id with the ID     *)
(* returned (Graph._create_digraph and the writers).                       *)

TrackerNames == {NameN, NameNdash, NameNbracket}
TrackerForms == {"protein", "protein_active"}
TrackerCompartments == {"cytoplasm", "nucleus"}

TrackerSpecies ==
    {Species(n, f, c) : n \in TrackerNames, f \in TrackerForms, c \in TrackerCompartments}

\* IDTracker.__init__
InitIds ==
    /\ location \in BOOLEAN
    /\ species_ids = <<>>
    /\ counters = [species_type |-> 0, species |-> 0, reaction |-> 0, compartment |-> 0]
    /\ result = [species |-> N_protein_cytoplasm, id |-> None, status |-> -1]
    /\ IdleAdapter
    /\ IdleGraph
    /\ IdleFixer
    /\ IdleOther

\* id, status = idtracker.get_species_id(s); if status == 0: idtracker.set_species_id(s, id)
ResolveSpecies(s) ==
    LET got == get_species_id(location, species_ids, s)
    IN /\ counters.species < MaxSpecies \/ got.status = 1
       /\ result' = [species |-> s, id |-> got.id, status |-> got.status]
       /\ IF got.status = 0
          THEN /\ species_ids' = set_species_id(location, species_ids, s, got.id)
               /\ counters' = [counters EXCEPT !.species = @ + 1]
          ELSE UNCHANGED <<species_ids, counters>>
       /\ UNCHANGED <<othervars, location, adaptervars, graphvars, fixvars>>

NextIds == \E s \in TrackerSpecies : ResolveSpecies(s)

SpecIds == InitIds /\ [][NextIds]_vars

-----------------------------------------------------------------------------
(* Claims about the identifier tracker.                                    *)

RECURSIVE Suffixed(_, _)
\* id followed by k times '_1'
Suffixed(id, k) == IF k = 0 THEN id ELSE Suffixed(id, k - 1) \o "_1"

\* the keys other than that of the species last asked for
OtherKeys == DOMAIN species_ids \ {SpeciesKey(location, result.species)}

\* C1: no two distinct identity keys (name, form, compartment) of a tracker hold
\* the same ID, and an ID newly assigned (status 0) is the candidate followed by
\* as many '_1' as it takes to be unused: every shorter one is held by another key.
C1_UniqueIds ==
    /\ \A k1 \in DOMAIN species_ids : \A k2 \in DOMAIN species_ids :
          k1 # k2 => species_ids[k1] # species_ids[k2]
    /\ result.status = 0 =>
          \E n \in 0..MaxSpecies :
             /\ result.id = Suffixed(SpeciesCandidate(location, result.species), n)
             /\ species_ids[SpeciesKey(location, result.species)] = result.id
             /\ \A m \in 0..(n - 1) :
                   \E k \in OtherKeys :
                      species_ids[k] = Suffixed(SpeciesCandidate(location, result.species), m)

\* three distinct keys had the same candidate: the last one got it with '_1_1'
C1_Witness ==
    /\ result.status = 0
    /\ result.id = Suffixed(SpeciesCandidate(location, result.species), 2)
    /\ Cardinality(DOMAIN species_ids) = 3

\* C2: the ID stored for a key never changes, and a get_species_id for a key that
\* has an ID returns that ID with status 1, whatever was assigned in between.
C2_StableIds ==
    [][ /\ \A k \in DOMAIN species_ids :
             k \in DOMAIN species_ids' /\ species_ids'[k] = species_ids[k]
        /\ SpeciesKey(location, result'.species) \in DOMAIN species_ids =>
             /\ result'.status = 1
             /\ result'.id = species_ids[SpeciesKey(location, result'.species)]
      ]_idvars

\* a key is asked for again after two other keys that collide with it were
\* assigned: it still has the unsuffixed candidate
C2_Witness ==
    /\ result.status = 1
    /\ result.id = SpeciesCandidate(location, result.species)
    /\ \E k \in OtherKeys : species_ids[k] = Suffixed(result.id, 1)
    /\ \E k \in OtherKeys : species_ids[k] = Suffixed(result.id, 2)

-----------------------------------------------------------------------------
(* Graphs under examination: a Graph is built from the collected           *)
(* reactions, which the database may hand over in any order, and an edge   *)
(* may be added to its DiGraph by hand.                                    *)

\* the reactions a graph is built of: those of the pool and an activation
\* of N that N itself catalyses, substrate and modifier of one reaction
GraphPool ==
    ReactionPool \cup
        {Reaction("rx11", CATALYSIS, <<N_protein_cytoplasm>>, <<N_active_cytoplasm>>,
                  <<N_protein_cytoplasm>>, "")}

GraphCollections == ListsOf(GraphPool, MaxReactions)

InitGraph ==
    /\ reactions \in GraphCollections
    /\ additional_reactions = <<>>
    /\ apply_log = <<>>
    /\ \E loc \in BOOLEAN : graph = Graph(reactions, loc)
    /\ previous_graph = graph
    /\ bridge = NoBridge
    /\ IdleIds
    /\ IdleFixer
    /\ IdleOther

\* the reactions are collected again, in some order, and Graph(pss_adapter, location)
BuildGraph(order, loc) ==
    /\ bridge = NoBridge
    /\ reactions' = order
    /\ previous_graph' = graph
    /\ graph' = Graph(order, loc)
    /\ UNCHANGED <<othervars, additional_reactions, apply_log, bridge, idvars, fixvars>>

\* graph.graph.add_edge(u, v, type=t) between a species and a reaction that no
\* path joins
AddBridge(u, v, t) ==
    /\ bridge = NoBridge
    /\ v \notin Reachable(graph.graph, {u})
    /\ \/ /\ NodeData(graph.graph, u).type = "species"
          /\ NodeData(graph.graph, v).type = "reaction"
          /\ t \in {"substrate", "modifier"}
       \/ /\ NodeData(graph.graph, u).type = "reaction"
          /\ NodeData(graph.graph, v).type = "species"
          /\ t = "product"
    /\ previous_graph' = graph
    /\ graph' = [graph EXCEPT !.graph = AddEdge(graph.graph, u, v, t)]
    /\ bridge' = [u |-> u, v |-> v, type |-> t]
    /\ UNCHANGED <<othervars, adaptervars, idvars, fixvars>>

NextGraph ==
    \/ \E order \in Orders(reactions) : \E loc \in BOOLEAN : BuildGraph(order, loc)
    \/ \E u \in NodeIds(graph.graph) : \E v \in NodeIds(graph.graph) :
          \E t \in {"substrate", "product", "modifier"} : AddBridge(u, v, t)

SpecGraph == InitGraph /\ [][NextGraph]_vars

-----------------------------------------------------------------------------
(* Claims about the graph.                                                 *)

\* the attributes of a node that an isomorphism has to keep
Attributes(node) ==
    <<node.type, node.name, node.form, node.compartment, node.reaction_type>>

RECURSIVE Matches(_, _, _, _)
\* whether the first i nodes of G1, mapped by f, can be completed to a bijection
\* onto the nodes of G2 that keeps the attributes and the typed edges
Matches(G1, G2, i, f) ==
    IF i > Len(G1.nodes)
    THEN {[u |-> f[e.u], v |-> f[e.v], type |-> e.type] : e \in G1.edges} = G2.edges
    ELSE \E m \in NodeIds(G2) \ Range(f) :
            /\ Attributes(NodeData(G2, m)) = Attributes(G1.nodes[i])
            /\ Matches(G1, G2, i + 1, [n \in DOMAIN f \cup {G1.nodes[i].id} |->
                                          IF n = G1.nodes[i].id THEN m ELSE f[n]])

\* the two DiGraphs are isomorphic with identical node attributes and edge types
Isomorphic(G1, G2) ==
    /\ Len(G1.nodes) = Len(G2.nodes)
    /\ Matches(G1, G2, 1, <<>>)

\* the names of the species nodes of a DiGraph
NamesIn(G) == {G.nodes[i].name : i \in {j \in DOMAIN G.nodes : G.nodes[j].type = "species"}}

\* the nodes of the name lie in two components of G, which has no other
SpansTwoComponents(G, name) ==
    /\ Cardinality(WeaklyConnectedComponents(G)) = 2
    /\ \A comp \in WeaklyConnectedComponents(G) : Range(SpeciesOfName(G, name)) \cap comp # {}

\* the nodes of the name and their direct neighbours
NearNodes(G, name) ==
    Range(SpeciesOfName(G, name)) \cup Neighbourhood(G, Range(SpeciesOfName(G, name)))

\* a bridging edge was added to a graph of two components
Bridged == bridge # NoBridge /\ Cardinality(WeaklyConnectedComponents(previous_graph.graph)) = 2

\* C6 as stated: a name whose nodes lie in the two components of a graph is
\* flagged, and is no longer flagged once one edge joining the two components is
\* added.
C6_BridgeUnflags ==
    \A name \in NamesIn(graph.graph) :
        /\ SpansTwoComponents(graph.graph, name) => name \in ProblematicNames(graph.graph)
        /\ Bridged /\ SpansTwoComponents(previous_graph.graph, name) =>
              name \notin ProblematicNames(graph.graph)

\* C6 as amended: a name whose nodes lie in the two components of a graph is
\* flagged; once one edge joining the two components is added it is no longer
\* flagged if both ends of the edge are nodes of that name or direct neighbours of
\* such nodes and these nodes formed two connected groups, and it is still flagged
\* if an end of the edge is any other node.
C6_NearBridgeUnflags ==
    \A name \in NamesIn(graph.graph) :
        /\ SpansTwoComponents(graph.graph, name) => name \in ProblematicNames(graph.graph)
        /\ Bridged /\ SpansTwoComponents(previous_graph.graph, name) =>
              LET near == NearNodes(previous_graph.graph, name)
                  groups == WeaklyConnectedComponents(
                                Subgraph(previous_graph.graph, near))
              IN /\ {bridge.u, bridge.v} \subseteq near /\ Cardinality(groups) = 2 =>
                       name \notin ProblematicNames(graph.graph)
                 /\ ~({bridge.u, bridge.v} \subseteq near) =>
                       name \in ProblematicNames(graph.graph)

\* a name of two components is no longer flagged after an edge between one of its
\* nodes and a neighbour of another, while another name of the same two
\* components is still flagged
C6_Witness ==
    /\ Bridged
    /\ \E name \in NamesIn(graph.graph) :
          /\ SpansTwoComponents(previous_graph.graph, name)
          /\ {bridge.u, bridge.v} \subseteq NearNodes(previous_graph.graph, name)
          /\ name \notin ProblematicNames(graph.graph)
    /\ \E name \in NamesIn(graph.graph) :
          /\ SpansTwoComponents(previous_graph.graph, name)
          /\ name \in ProblematicNames(graph.graph)

\* C7: two builds of the same reactions with the same location flag, the
\* reactions in any two orders, give isomorphic graphs with identical node
\* attributes (type, name, form, compartment, reaction_type) and edge types.
C7_BuildIsPure ==
    bridge = NoBridge /\ graph.location = previous_graph.location =>
        Isomorphic(previous_graph.graph, graph.graph)

-----------------------------------------------------------------------------
(* apply_model_fixes called from outside, on lists of at most MaxFixes     *)
(* fixes.                                                                  *)

\* self.apply_model_fixes(fixes), its call and result noted in apply_log
CallApply(fixes) ==
    LET st == apply_model_fixes(reactions, additional_reactions, fixes)
    IN /\ reactions' = st.reactions
       /\ additional_reactions' = st.additional_reactions
       /\ apply_log' = Append(apply_log, [fixes |-> fixes, num |-> st.num_fixes_applied])

FixPool ==
    { TransportReaction(NameN, "protein", "nucleus", "cytoplasm", LOC_TRANSPORT_TO_CONSUMED),
      TransportReaction(NameNdash, "protein", "nucleus", "cytoplasm", LOC_TRANSPORT_FROM_CYT),
      ReactionFix("rx1", "product", NameN, "protein_active", None,
                  FORM_PROTEIN_PRODUCT_ACTIVE),
      ReactionFix("rx3", "substrate", NameN, None, "nucleus", "fix-loc:moved"),
      ReactionFix("rx7", "substrate", NameN, "protein_active", None,
                  FORM_COMPLEX_SUBSTRATE_ACTIVE) }

\* the lists of at most n elements of S
SeqsOf(S, n) == UNION {[1..k -> S] : k \in 0..n}

InitApply ==
    /\ reactions \in Collections
    /\ additional_reactions = <<>>
    /\ apply_log = <<>>
    /\ IdleIds
    /\ IdleGraph
    /\ IdleFixer
    /\ IdleOther

\* fixer.apply_model_fixes(fixes)
ApplyModelFixes(fixes) ==
    /\ Len(apply_log) < MaxCalls
    /\ CallApply(fixes)
    /\ UNCHANGED <<othervars, idvars, graphvars, fixvars>>

NextApply == \E fixes \in SeqsOf(FixPool, MaxFixes) : ApplyModelFixes(fixes)

SpecApply == InitApply /\ [][NextApply]_vars

-----------------------------------------------------------------------------
(* Claims about apply_model_fixes.                                         *)

\* the fixes of a list that are transport fixes
TransportsOf(fixes) == {fixes[i] : i \in {j \in DOMAIN fixes : fixes[j].kind = "TransportReaction"}}

\* the reactions of a list that carry the ID
WithId(list, id) == {i \in DOMAIN list : list[i].id = id}

\* C3: a transport fix applied twice, in one call or in two, registers one
\* reaction under its ID: a call adds one reaction for each ID of its
\* transport fixes that the collection does not hold, no two reactions of the
\* collection share an ID, and a call of transport fixes alone returns the
\* number of reactions it added, which is zero when the IDs are all there
C3_TransportOnce ==
    [][Len(apply_log') = Len(apply_log) + 1 =>
        LET call == apply_log'[Len(apply_log')]
            new == {TransportId(f) : f \in TransportsOf(call.fixes)} \ ReactionIds(reactions)
        IN /\ Len(reactions') = Len(reactions) + Cardinality(new)
           /\ \A id \in new : Cardinality(WithId(reactions', id)) = 1
           /\ \A id \in ReactionIds(reactions) :
                 Cardinality(WithId(reactions', id)) = Cardinality(WithId(reactions, id))
           /\ Len(additional_reactions') = Len(additional_reactions) + Cardinality(new)
           /\ TransportsOf(call.fixes) = Range(call.fixes) => call.num = Cardinality(new)
           /\ (new = {} /\ TransportsOf(call.fixes) = Range(call.fixes)) =>
                 /\ reactions' = reactions
                 /\ additional_reactions' = additional_reactions
                 /\ call.num = 0
      ]_vars

\* a transport fix was applied in one call and again in the next: the first
\* call returned 1 and the second 0
C3_Witness ==
    \E f \in FixPool :
        /\ f.kind = "TransportReaction"
        /\ Len(apply_log) = 2
        /\ apply_log[1] = [fixes |-> <<f>>, num |-> 1]
        /\ apply_log[2] = [fixes |-> <<f>>, num |-> 0]
        /\ Cardinality(WithId(reactions, TransportId(f))) = 1


-----------------------------------------------------------------------------
(* identify_model_fixes: the form loop, then the location loop, each pass  *)
(* of a loop one call of _identify_model_fixes, which takes the            *)
(* problematic nodes one by one.  In interactive mode the answer typed at  *)
(* a node is an input of the step that takes the node.                     *)

\* what may be typed at the prompt
Inputs == {"a", "s", "q", " Q", "x"}

\* action.strip().lower()
strip_lower(input) == IF input = " Q" THEN "q" ELSE input

\* the orders in which a set can be iterated
SetOrders(S) ==
    {o \in [1..Cardinality(S) -> S] : \A i, j \in DOMAIN o : i # j => o[i] # o[j]}

\* the compartments of the species nodes of a DiGraph
CompartmentsOf(G) ==
    {G.nodes[i].compartment : i \in {j \in DOMAIN G.nodes : G.nodes[j].type = "species"}}

\* Graph(self.pss_adapter, location=True) whatever the axis
with_location_always(axis) == TRUE

\* location=part == 'location' (model_fixes.py line 236)
with_location(axis) == axis = "location"

\* the nodes left when the node taken is skipped, whatever is typed
remaining_after_skip(action, nodes) == Tail(nodes)

\* the nodes left to the loop once action is typed at the first of them: 'q'
\* makes _interactive_fixing return -1 and the loop break (lines 272-273)
remaining_after(action, nodes) == IF action = "q" THEN <<>> ELSE Tail(nodes)

\* a loop that goes on until range(max_iterations) is used up
loop_to_the_cap(here, i, cap) == i + 1 < cap

\* whether the loop of an axis takes another pass after iteration i returned
\* here: not after 'if here == 0: break', and range(cap) must not be used up
loop_goes_on(here, i, cap) == here # 0 /\ i + 1 < cap

\* the orders in which the sets of compartments of a pass can be iterated:
\* _suggest_fixes_form iterates none
IterationOrders ==
    IF part = "location" THEN SetOrders(CompartmentsOf(graph.graph)) ELSE {<<>>}

\* fixing_func(node_name, species, subgraph)
Suggest(data, consuming_order, producing_order) ==
    IF part = "location"
    THEN suggest_fixes_location(data.name, data.species, data.subgraph,
                                consuming_order, producing_order)
    ELSE suggest_fixes_form(data.name, data.species, data.subgraph)

\* the node taken is noted in the entry of the pass that runs
Taken(name, found, action) ==
    [pass_log EXCEPT ![Len(pass_log)].taken =
        Append(@, [name |-> name, found |-> found, action |-> action])]

\* ModelFixer.__init__ and the call of identify_model_fixes
InitFix ==
    /\ reactions \in Collections
    /\ additional_reactions = <<>>
    /\ apply_log = <<>>
    /\ interactive \in BOOLEAN
    /\ apply_fixes \in BOOLEAN
    /\ max_iterations \in 0..MaxIterations \cup {DefaultMaxIterations}
    /\ pc = "loop"
    /\ part = "form"
    /\ iteration = 0
    /\ problematic_nodes = <<>>
    /\ num_fixes_applied = 0
    /\ num_applied = [form |-> 0, location |-> 0]
    /\ pass_log = <<>>
    /\ IdleIds
    /\ IdleGraph
    /\ IdleOther

\* range(0) is empty: the form loop has no pass and line 188 reads
\* num_form_fixes_applied_here, which was never bound (UnboundLocalError)
EmptyLoop ==
    /\ pc = "loop"
    /\ max_iterations = 0
    /\ pc' = "raised"
    /\ UNCHANGED <<othervars, idvars, adaptervars, graphvars, interactive, apply_fixes, max_iterations,
                   part, iteration, problematic_nodes, num_fixes_applied, num_applied,
                   pass_log>>

\* _identify_model_fixes up to its loop over the nodes (lines 234-251)
BeginPass ==
    /\ pc = "loop"
    /\ iteration < max_iterations
    /\ graph' = Graph(reactions, with_location(part))
    /\ problematic_nodes' = find_problematic_nodes(graph'.graph)
    /\ num_fixes_applied' = 0
    /\ pass_log' = Append(pass_log, [part |-> part, taken |-> <<>>, applied |-> 0,
                                     finished |-> FALSE])
    /\ pc' = "nodes"
    /\ UNCHANGED <<othervars, idvars, adaptervars, previous_graph, bridge, interactive, apply_fixes,
                   max_iterations, part, iteration, num_applied>>

\* fixes applied whenever there are some, whatever the flag
applies_whatever(flag, fixes) == fixes # <<>>

\* 'if fixes and self.apply_fixes' (model_fixes.py line 277)
applies(flag, fixes) == fixes # <<>> /\ flag

\* fixes applied at 'a', and at any other answer but 'q' when the flag is set
accepts_or_flag(action, fixes) ==
    fixes # <<>> /\ (action = "a" \/ (apply_fixes /\ action # "q"))

\* _interactive_fixing calls apply_model_fixes: there are fixes and the
\* answer is 'a' (model_fixes.py lines 669, 683 and 688-689)
accepts(action, fixes) == fixes # <<>> /\ action = "a"

\* the body of the loop over the nodes when interactive is False (lines 254-280)
FixNode(consuming_order, producing_order) ==
    /\ pc = "nodes"
    /\ ~interactive
    /\ problematic_nodes # <<>>
    /\ LET data == Head(problematic_nodes)
           fixes == Suggest(data, consuming_order, producing_order)
       IN /\ IF applies(apply_fixes, fixes)
             THEN /\ CallApply(fixes)
                  /\ num_fixes_applied' = num_fixes_applied + apply_log'[Len(apply_log')].num
             ELSE UNCHANGED <<adaptervars, num_fixes_applied>>
          /\ pass_log' = Taken(data.name, Len(fixes), None)
    /\ problematic_nodes' = Tail(problematic_nodes)
    /\ UNCHANGED <<othervars, idvars, graphvars, interactive, apply_fixes, max_iterations, pc, part,
                   iteration, num_applied>>

\* the body of the loop over the nodes when interactive is True: the fixes
\* are suggested, _interactive_fixing prompts and input is typed (lines
\* 254-274 and 662-698)
AnswerNode(input, consuming_order, producing_order) ==
    /\ pc = "nodes"
    /\ interactive
    /\ problematic_nodes # <<>>
    /\ LET data == Head(problematic_nodes)
           fixes == Suggest(data, consuming_order, producing_order)
           action == strip_lower(input)
       IN /\ IF accepts(action, fixes)
             THEN /\ CallApply(fixes)
                  /\ num_fixes_applied' = num_fixes_applied + apply_log'[Len(apply_log')].num
             ELSE UNCHANGED <<adaptervars, num_fixes_applied>>
          /\ problematic_nodes' = remaining_after(action, problematic_nodes)
          /\ pass_log' = Taken(data.name, Len(fixes), action)
    /\ UNCHANGED <<othervars, idvars, graphvars, interactive, apply_fixes, max_iterations, pc, part,
                   iteration, num_applied>>

\* _identify_model_fixes returns num_fixes_applied and the loop of the axis
\* goes on or ends (lines 180-185 and 208-213)
EndPass ==
    /\ pc = "nodes"
    /\ problematic_nodes = <<>>
    /\ pass_log' = [pass_log EXCEPT ![Len(pass_log)].applied = num_fixes_applied,
                                    ![Len(pass_log)].finished = TRUE]
    /\ num_applied' = [num_applied EXCEPT ![part] = @ + num_fixes_applied]
    /\ IF loop_goes_on(num_fixes_applied, iteration, max_iterations)
       THEN /\ iteration' = iteration + 1
            /\ pc' = "loop"
            /\ part' = part
       ELSE IF part = "form"
       THEN /\ iteration' = 0
            /\ pc' = "loop"
            /\ part' = "location"
       ELSE /\ pc' = "done"
            /\ UNCHANGED <<part, iteration>>
    /\ UNCHANGED <<othervars, idvars, adaptervars, graphvars, interactive, apply_fixes,
                   max_iterations, problematic_nodes, num_fixes_applied>>

NextFix ==
    \/ EmptyLoop
    \/ BeginPass
    \/ \E co \in IterationOrders : \E po \in IterationOrders : FixNode(co, po)
    \/ \E input \in Inputs : \E co \in IterationOrders : \E po \in IterationOrders :
          AnswerNode(input, co, po)
    \/ EndPass

SpecFix == InitFix /\ [][NextFix]_vars


-----------------------------------------------------------------------------
(* Claims about the suggestions.                                           *)

Names == {NameN, NameM, NameK}

Roles == {"substrate", "product", "modifier"}

\* where the species of a name occur in a list of reactions
Occurrences(list, name) ==
    UNION {{[r |-> i, role |-> ro, species |-> sp] :
               sp \in {x \in Range(SpeciesList(list[i], ro)) : x.name = name}} :
           i \in DOMAIN list, ro \in Roles}

\* the name occurs as 'protein' once, as the one product of that name of the
\* transcriptional/translational reaction r, and else as 'protein_active'
\* in other reactions, at least once
ProteinPattern(list, name, r) ==
    LET occ == Occurrences(list, name)
        plain == {o \in occ : o.species.form = "protein"}
    IN /\ list[r].reaction_type \in TRANSCRIPTIONAL_TRANSLATIONAL
       /\ plain # {}
       /\ \A o \in plain : o.r = r /\ o.role = "product"
       /\ Cardinality({k \in DOMAIN list[r].products : list[r].products[k].name = name}) = 1
       /\ occ \ plain # {}
       /\ \A o \in occ \ plain : o.species.form = "protein_active" /\ o.r # r

\* the fix that makes 'protein_active' the form of the product of reaction r
ProductActive(list, name, r) ==
    ReactionFix(list[r].id, "product", name, "protein_active", None,
                FORM_PROTEIN_PRODUCT_ACTIVE)

\* the nodes of a name in the form view of a list of reactions
FormNodes(list, name) ==
    LET G == Graph(list, FALSE).graph
    IN {G.nodes[i] : i \in {j \in DOMAIN G.nodes : G.nodes[j].name = name}}

\* a form pass is about to take its first node
FormPassStarts ==
    /\ pc = "nodes"
    /\ part = "form"
    /\ pass_log[Len(pass_log)].taken = <<>>

\* C4: when a name occurs as the 'protein' product of one transcriptional/
\* translational reaction and else only as 'protein_active' in other
\* reactions, a form pass has the name among its problematic nodes and the
\* one fix suggested for it makes 'protein_active' the form of that product;
\* once the fix is applied, the form view of the reactions has one node of
\* the name, of form 'protein_active', and the name is not problematic in it
C4_ProteinProductActive ==
    /\ [](FormPassStarts =>
            \A name \in Names : \A r \in DOMAIN reactions :
                ProteinPattern(reactions, name, r) =>
                    \E i \in DOMAIN problematic_nodes :
                        /\ problematic_nodes[i].name = name
                        /\ suggest_fixes_form(name, problematic_nodes[i].species,
                                              problematic_nodes[i].subgraph)
                              = <<ProductActive(reactions, name, r)>>)
    /\ [][\A name \in Names : \A r \in DOMAIN reactions :
            (/\ ProteinPattern(reactions, name, r)
             /\ Len(apply_log') = Len(apply_log) + 1
             /\ apply_log'[Len(apply_log')].fixes = <<ProductActive(reactions, name, r)>>)
            => /\ apply_log'[Len(apply_log')].num = 1
               /\ Cardinality(FormNodes(reactions', name)) = 1
               /\ \A nd \in FormNodes(reactions', name) : nd.form = "protein_active"
               /\ name \notin ProblematicNames(Graph(reactions', FALSE).graph)
               /\ get_species_id(FALSE, <<>>, Species(name, "protein", None)).id
                     \notin NodeIds(Graph(reactions', FALSE).graph)
       ]_vars

\* the fix of such a name was applied by the last call of apply_model_fixes:
\* the product of a transcriptional/translational reaction is the name as
\* 'protein_active' and the reaction carries the tag of the fix
C4_Witness ==
    /\ apply_log # <<>>
    /\ \E name \in Names : \E r \in DOMAIN reactions :
          /\ apply_log[Len(apply_log)] =
                [fixes |-> <<ProductActive(reactions, name, r)>>, num |-> 1]
          /\ reactions[r].export_notes = FORM_PROTEIN_PRODUCT_ACTIVE
          /\ \E k \in DOMAIN reactions[r].products :
                /\ reactions[r].products[k].name = name
                /\ reactions[r].products[k].form = "protein_active"
          /\ Cardinality(FormNodes(reactions, name)) = 1
          /\ Cardinality({o.r : o \in Occurrences(reactions, name)}) > 1

Forms == {"protein", "protein_active"}

Compartments == {"cytoplasm", "nucleus"}

\* the compartments where reactions produce the name in the form: the
\* translocations (transport = TRUE) or the other reactions
ProducedIn(list, name, form, transport) ==
    {o.species.compartment :
        o \in {o \in Occurrences(list, name) :
                 /\ o.role = "product"
                 /\ o.species.form = form
                 /\ (list[o.r].reaction_type = TRANSLOCATION) = transport}}

\* the compartments where reactions take the name in the form as substrate
\* or modifier
ConsumedIn(list, name, form) ==
    {o.species.compartment :
        o \in {o \in Occurrences(list, name) :
                 o.role \in {"substrate", "modifier"} /\ o.species.form = form}}

\* the name in the form is produced, translocations apart, in compartment a
\* alone and consumed in another compartment b, where no translocation
\* produces it
NeedsTransport(list, name, form, a, b) ==
    /\ a # b
    /\ ProducedIn(list, name, form, FALSE) = {a}
    /\ b \in ConsumedIn(list, name, form)
    /\ b \notin ProducedIn(list, name, form, TRUE)

\* what _suggest_fixes_location returns for a name in the location view of a
\* list of reactions
LocationSuggestion(list, name, consuming_order, producing_order) ==
    LET G == Graph(list, TRUE).graph
    IN suggest_fixes_location(name, SpeciesOfName(G, name),
                              NodeSubgraph(G, SpeciesOfName(G, name)),
                              consuming_order, producing_order)

\* C5: for a name in a form that is produced, translocations apart, in one
\* compartment A alone, consumed in another compartment B and not produced in
\* B by a translocation, _suggest_fixes_location proposes the transport of
\* the name in the form from A to B, in whatever order the sets are iterated
C5_TransportToConsumed ==
    \A name \in Names : \A form \in Forms : \A a \in Compartments : \A b \in Compartments :
        NeedsTransport(reactions, name, form, a, b) =>
            \A co \in SetOrders(Compartments) : \A po \in SetOrders(Compartments) :
                LET fixes == LocationSuggestion(reactions, name, co, po)
                IN \E i \in DOMAIN fixes :
                      /\ fixes[i].kind = "TransportReaction"
                      /\ fixes[i].name = name
                      /\ fixes[i].form = form
                      /\ fixes[i].source_compartment = a
                      /\ fixes[i].target_compartment = b

\* a location pass is at a node whose name needs such a transport
C5_Witness ==
    /\ pc = "nodes"
    /\ part = "location"
    /\ problematic_nodes # <<>>
    /\ \E form \in Forms : \E a \in Compartments : \E b \in Compartments :
          NeedsTransport(reactions, Head(problematic_nodes).name, form, a, b)


-----------------------------------------------------------------------------
(* Claims about the repair loop.                                           *)

Axes == {"form", "location"}

\* the passes of an axis, as positions in pass_log
PassesOf(axis) == {i \in DOMAIN pass_log : pass_log[i].part = axis}

RECURSIVE FoundIn(_)
\* how many fixes were suggested for the nodes taken
FoundIn(taken) == IF taken = <<>> THEN 0 ELSE Head(taken).found + FoundIn(Tail(taken))

\* identify_model_fixes has returned or raised
Terminated == pc \in {"done", "raised"}

\* the passes the loops can still begin, the one that runs included
PassesLeft ==
    IF part = "form"
    THEN (max_iterations - iteration) + max_iterations
    ELSE max_iterations - iteration

\* the steps a pass can take: its beginning, a node of each name, its return
PassSteps == Cardinality(Names) + 2

\* a bound on the steps identify_model_fixes can still take
StepsLeft ==
    IF Terminated THEN 0
    ELSE IF pc = "loop" THEN PassesLeft * PassSteps + 1
    ELSE (PassesLeft - 1) * PassSteps + Len(problematic_nodes) + 2

\* C8: identify_model_fixes terminates whatever max_iterations is: every
\* step it takes lowers a natural number, which is 0 once it has returned or
\* raised; no axis has more than max_iterations passes, and a pass of an
\* axis that found no fix, or applied none, is the last pass of that axis
C8_Terminates ==
    /\ [](/\ StepsLeft \in Nat
          /\ StepsLeft = 0 <=> Terminated
          /\ \A axis \in Axes :
                /\ Cardinality(PassesOf(axis)) <= max_iterations
                /\ \A i \in PassesOf(axis) :
                      (/\ pass_log[i].finished
                       /\ FoundIn(pass_log[i].taken) = 0 \/ pass_log[i].applied = 0)
                      => \A j \in PassesOf(axis) : j <= i)
    /\ [][StepsLeft' < StepsLeft]_vars

\* the form axis has used up a cap of two passes or more, each of which
\* applied a fix, and the location axis has stopped below the cap after a
\* pass that found nothing
C8_Witness ==
    /\ pc = "done"
    /\ max_iterations >= 2
    /\ Cardinality(PassesOf("form")) = max_iterations
    /\ \A i \in PassesOf("form") : pass_log[i].applied > 0
    /\ Cardinality(PassesOf("location")) < max_iterations
    /\ \A i \in PassesOf("location") : FoundIn(pass_log[i].taken) = 0

\* C9: no form pass comes after a location pass; when a location pass has
\* begun, the last form pass has returned and it applied no fix or was pass
\* number max_iterations; the graph of a form pass is built without the
\* location and the graph of a location pass with it
C9_FormBeforeLocation ==
    /\ \A i \in PassesOf("location") : \A j \in PassesOf("form") : j < i
    /\ PassesOf("location") # {} =>
          /\ PassesOf("form") # {}
          /\ pass_log[Max(PassesOf("form"))].finished
          /\ \/ pass_log[Max(PassesOf("form"))].applied = 0
             \/ Cardinality(PassesOf("form")) = max_iterations
    /\ pc = "nodes" =>
          /\ pass_log[Len(pass_log)].part = part
          /\ graph.location = (part = "location")

\* a location pass runs after a form pass that applied a fix and one that
\* applied none
C9_Witness ==
    /\ pc = "nodes"
    /\ Len(pass_log) = 3
    /\ pass_log[1].part = "form" /\ pass_log[1].applied > 0
    /\ pass_log[2].part = "form" /\ pass_log[2].applied = 0
    /\ pass_log[3].part = "location"
    /\ graph.location

\* the nodes the pass that runs has taken
TakenNow == pass_log[Len(pass_log)].taken

\* 'q' is typed at a node
QuitTyped ==
    /\ pass_log # <<>>
    /\ Len(pass_log') = Len(pass_log)
    /\ Len(pass_log'[Len(pass_log)].taken) = Len(TakenNow) + 1
    /\ pass_log'[Len(pass_log)].taken[Len(TakenNow) + 1].action = "q"

\* C10: in a pass, no node is taken after the node at which 'q' was typed;
\* typing 'q' leaves the reactions, with the fixes applied before, as they
\* are and fixes nothing, and the pass then returns the number of fixes
\* applied before the quit
C10_QuitKeepsFixes ==
    /\ [](\A i \in DOMAIN pass_log : \A k \in DOMAIN pass_log[i].taken :
            pass_log[i].taken[k].action = "q" => k = Len(pass_log[i].taken))
    /\ [][QuitTyped =>
            /\ UNCHANGED <<adaptervars, num_fixes_applied>>
            /\ problematic_nodes' = <<>>
       ]_vars
    /\ [][(/\ pc = "nodes"
           /\ TakenNow # <<>>
           /\ TakenNow[Len(TakenNow)].action = "q")
          => /\ UNCHANGED adaptervars
             /\ pass_log'[Len(pass_log)].taken = TakenNow
             /\ pass_log'[Len(pass_log)].finished
             /\ pass_log'[Len(pass_log)].applied = num_fixes_applied
       ]_vars

\* in a pass with three problematic nodes the fix of the first was applied
\* and 'q' was typed at the second: the third is not taken and the reaction
\* fixed carries the tag of its fix
C10_Witness ==
    /\ pc = "nodes"
    /\ interactive
    /\ Len(find_problematic_nodes(graph.graph)) = 3
    /\ Len(TakenNow) = 2
    /\ TakenNow[1].action = "a" /\ TakenNow[1].found > 0
    /\ TakenNow[2].action = "q"
    /\ num_fixes_applied > 0
    /\ problematic_nodes = <<>>
    /\ \E r \in DOMAIN reactions : reactions[r].export_notes # ""

\* the passes in which 'q' was typed
QuitPasses ==
    {i \in DOMAIN pass_log :
        \E k \in DOMAIN pass_log[i].taken : pass_log[i].taken[k].action = "q"}

\* C11: after 'q' was typed no further pass of the form axis or of the
\* location axis runs and no further node is presented: the pass in which
\* 'q' was typed is the last pass of the log
C11_QuitEndsLoop == \A i \in QuitPasses : i = Len(pass_log)

\* identify_model_fixes runs to identify only
IdentifyOnly == ~interactive /\ ~apply_fixes

\* C12: with interactive and apply_fixes both false no step changes the
\* reactions (forms, compartments, export notes, insertions) or
\* additional_reactions and apply_model_fixes is never called; no axis has a
\* second pass, every pass returns 0, and when identify_model_fixes has
\* returned each axis has run exactly one pass
C12_IdentifyOnly ==
    /\ [][IdentifyOnly => UNCHANGED adaptervars]_vars
    /\ [](IdentifyOnly =>
            /\ \A axis \in Axes : Cardinality(PassesOf(axis)) <= 1
            /\ \A i \in DOMAIN pass_log : pass_log[i].applied = 0
            /\ pc = "done" => \A axis \in Axes : Cardinality(PassesOf(axis)) = 1)

\* an identify-only run has returned after one pass of each axis, fixes were
\* suggested for a node and the reactions carry no export note
C12_Witness ==
    /\ IdentifyOnly
    /\ pc = "done"
    /\ Len(pass_log) = 2
    /\ \E i \in DOMAIN pass_log : FoundIn(pass_log[i].taken) > 0
    /\ reactions # <<>>
    /\ \A r \in DOMAIN reactions : reactions[r].export_notes = ""
    /\ apply_log = <<>>

\* a node is taken by the pass that runs
NodeTaken ==
    /\ pass_log # <<>>
    /\ Len(pass_log') = Len(pass_log)
    /\ Len(pass_log'[Len(pass_log)].taken) = Len(TakenNow) + 1

\* the answer noted for the node just taken
Answer == pass_log'[Len(pass_log)].taken[Len(TakenNow) + 1]

\* the step called apply_model_fixes with the fixes suggested for the node
\* at the head of problematic_nodes
AppliedSuggestion ==
    /\ Len(apply_log') = Len(apply_log) + 1
    /\ \E co \in IterationOrders : \E po \in IterationOrders :
          LET fixes == Suggest(Head(problematic_nodes), co, po)
              st == apply_model_fixes(reactions, additional_reactions, fixes)
          IN /\ apply_log'[Len(apply_log')].fixes = fixes
             /\ reactions' = st.reactions
             /\ additional_reactions' = st.additional_reactions

\* C13: in interactive mode the fixes suggested for a node are applied if
\* and only if 'a' is answered at that node, whatever apply_fixes is; any
\* answer other than 'a' leaves the reactions and additional_reactions as
\* they are, and any answer other than 'q' moves on to the next node
C13_AppliedIffAccepted ==
    [][(interactive /\ NodeTaken) =>
          /\ (Answer.action = "a" /\ Answer.found > 0) <=> AppliedSuggestion
          /\ Answer.action # "a" => UNCHANGED adaptervars
          /\ Answer.action # "q" => problematic_nodes' = Tail(problematic_nodes)
      ]_vars

\* with apply_fixes false, an unrecognised answer left the fixes of the first
\* node unapplied and 'a' applied those of the second
C13_Witness ==
    /\ interactive
    /\ ~apply_fixes
    /\ pc = "nodes"
    /\ Len(TakenNow) = 2
    /\ TakenNow[1].action = "x" /\ TakenNow[1].found > 0
    /\ TakenNow[2].action = "a" /\ TakenNow[2].found > 0
    /\ Len(apply_log) = 1
    /\ \E r \in DOMAIN reactions : reactions[r].export_notes # ""


-----------------------------------------------------------------------------
(* A writer session: add_reaction is called with reactions of the          *)
(* adapter, in any order and any of them again.                            *)

\* how many calls of add_reaction are followed
MaxAdds == 3

N_protein_vacuole == Species(NameN, "protein", "vacuole")

\* reactions handed to a writer: four of the pool, a second object with the
\* ID rx1, and a reaction with a species in a compartment without short code
WriterPool ==
    { Reaction("rx1", TRANSCRIPTIONAL_TRANSLATIONAL_ACTIVATION,
               <<>>, <<N_protein_nucleus>>, <<>>, ""),
      Reaction("rx1", CATALYSIS, <<M_protein_cytoplasm>>, <<M_active_cytoplasm>>, <<>>, ""),
      Reaction("rx3", CATALYSIS, <<N_protein_cytoplasm>>, <<>>, <<>>, ""),
      Reaction("rx5", TRANSCRIPTIONAL_TRANSLATIONAL_ACTIVATION,
               <<>>, <<M_protein_cytoplasm>>, <<N_active_nucleus>>, ""),
      Reaction("rx8", TRANSLOCATION,
               <<N_protein_nucleus>>, <<N_protein_cytoplasm>>, <<>>, ""),
      Reaction("rx12", CATALYSIS,
               <<N_protein_cytoplasm, N_protein_vacuole>>, <<N_active_cytoplasm>>, <<>>, "") }

\* the writer as a record of the operators above
Writer ==
    [location |-> location, species_ids |-> species_ids, counters |-> counters,
     reaction_ids |-> reaction_ids, compartment_ids |-> compartment_ids,
     sbml_model |-> sbml_model, id |-> None, raised |-> None, returned |-> None]

\* SBML.__init__
InitSbml ==
    /\ location = TRUE
    /\ species_ids = <<>>
    /\ counters = [species_type |-> 0, species |-> 0, reaction |-> 0, compartment |-> 0]
    /\ result = [species |-> N_protein_cytoplasm, id |-> None, status |-> -1]
    /\ reaction_ids = <<>>
    /\ compartment_ids = <<>>
    /\ sbml_model = EmptyModel
    /\ rules = <<>>
    /\ species_dict = <<>>
    /\ calls = <<>>
    /\ IdleAdapter
    /\ IdleGraph
    /\ IdleFixer
    /\ IdleCollect
    /\ IdleEdges

\* sbml.add_reaction(r)
SbmlAddReaction(r) ==
    /\ Len(calls) < MaxAdds
    /\ \E w \in {sbml_add_reaction(Writer, r)} :
          /\ species_ids' = w.species_ids
          /\ counters' = w.counters
          /\ reaction_ids' = w.reaction_ids
          /\ compartment_ids' = w.compartment_ids
          /\ sbml_model' = w.sbml_model
          /\ calls' = Append(calls, [reaction |-> r, returned |-> w.returned,
                                     raised |-> w.raised])
    /\ UNCHANGED <<location, result, rules, species_dict, adaptervars, graphvars, fixvars,
                   collectvars, edgevars>>

NextSbml == \E r \in WriterPool : SbmlAddReaction(r)

SpecSbml == InitSbml /\ [][NextSbml]_vars

\* the elements of the model that carry the reaction ID
ReactionElements(id) == {i \in DOMAIN sbml_model.reactions : sbml_model.reactions[i].id = id}

\* the last call of add_reaction
LastCall == calls'[Len(calls')]

\* C14: a call of SBML.add_reaction with a reaction whose ID is registered
\* returns -1 and changes neither the registered reaction, species and
\* compartment IDs nor the model; a call with another ID registers it; and
\* at any time the registered IDs are those of the reaction elements of the
\* model, one element each
C14_SbmlAddOnce ==
    /\ [][Len(calls') = Len(calls) + 1 =>
            IF LastCall.reaction.id \in DOMAIN reaction_ids
            THEN /\ LastCall.returned = "-1"
                 /\ UNCHANGED <<reaction_ids, species_ids, compartment_ids, sbml_model,
                                counters>>
            ELSE /\ LastCall.returned = None
                 /\ DOMAIN reaction_ids' = DOMAIN reaction_ids \cup {LastCall.reaction.id}
       ]_vars
    /\ [](\A i \in DOMAIN sbml_model.reactions :
            /\ sbml_model.reactions[i].id \in DOMAIN reaction_ids
            /\ Cardinality(ReactionElements(sbml_model.reactions[i].id)) = 1)
    /\ [](\A id \in DOMAIN reaction_ids : Cardinality(ReactionElements(id)) = 1)

\* rx1 was added, then another reaction object with the ID rx1 and then the
\* first again: both calls returned -1 and the model has the one element
C14_Witness ==
    /\ Len(calls) = 3
    /\ calls[1].reaction.id = "rx1" /\ calls[1].returned = None
    /\ calls[2].reaction.id = "rx1" /\ calls[2].reaction # calls[1].reaction
    /\ calls[2].returned = "-1"
    /\ calls[3] = [calls[1] EXCEPT !.returned = "-1"]
    /\ Len(sbml_model.reactions) = 1
    /\ Len(sbml_model.species) = 1


-----------------------------------------------------------------------------
(* A TabularQual writer session: add_reaction is called with reactions of  *)
(* the adapter, in any order and any of them again.                        *)

\* reaction_properties.get('reaction_effect') of Reaction.__init__
WithEffect(r, effect) == r @@ [reaction_effect |-> effect]

\* reactions handed to the writer: with a rule, without modifiers and so
\* without a rule, and a transport reaction of a fix, which has no effect
TabularPool ==
    { WithEffect(Reaction("rx13", CATALYSIS, <<N_protein_cytoplasm>>,
                          <<N_active_cytoplasm>>, <<M_active_cytoplasm>>, ""), "activation"),
      WithEffect(Reaction("rx5", TRANSCRIPTIONAL_TRANSLATIONAL_ACTIVATION,
                          <<>>, <<M_protein_cytoplasm>>, <<N_active_nucleus>>, ""),
                 "activation"),
      WithEffect(Reaction("rx6", TRANSCRIPTIONAL_TRANSLATIONAL_REPRESSION,
                          <<>>, <<N_protein_nucleus>>, <<M_active_cytoplasm>>, ""),
                 "inhibition"),
      WithEffect(Reaction("rx1", TRANSCRIPTIONAL_TRANSLATIONAL_ACTIVATION,
                          <<>>, <<N_protein_nucleus>>, <<>>, ""), "activation"),
      WithEffect(Reaction("transport_N_p_nuc_to_cyt", TRANSLOCATION,
                          <<N_protein_nucleus>>, <<N_protein_cytoplasm>>, <<>>,
                          LOC_TRANSPORT_TO_CONSUMED), None) }

\* the IDs a tracker with location gives the species of the pool
PoolIds ==
    {SpeciesCandidate(TRUE, sp) :
        sp \in {N_protein_cytoplasm, N_active_cytoplasm, M_active_cytoplasm,
                 M_protein_cytoplasm, N_active_nucleus, N_protein_nucleus}}

\* the writer as a record of the operators above
TabularWriter ==
    [location |-> location, species_ids |-> species_ids, counters |-> counters,
     reaction_ids |-> reaction_ids, species_dict |-> species_dict, rules |-> rules,
     raised |-> None, returned |-> None]

\* TabluarQqual.__init__
InitTabular ==
    /\ location = TRUE
    /\ species_ids = <<>>
    /\ counters = [species_type |-> 0, species |-> 0, reaction |-> 0, compartment |-> 0]
    /\ result = [species |-> N_protein_cytoplasm, id |-> None, status |-> -1]
    /\ reaction_ids = <<>>
    /\ compartment_ids = <<>>
    /\ sbml_model = EmptyModel
    /\ rules = <<>>
    /\ species_dict = <<>>
    /\ calls = <<>>
    /\ IdleAdapter
    /\ IdleGraph
    /\ IdleFixer
    /\ IdleCollect
    /\ IdleEdges

\* tabularqual.add_reaction(r)
TabularAddReaction(r, order) ==
    /\ Len(calls) < MaxAdds
    /\ \E w \in {tabularqual_add_reaction(TabularWriter, r, order)} :
          /\ species_ids' = w.species_ids
          /\ counters' = w.counters
          /\ reaction_ids' = w.reaction_ids
          /\ species_dict' = w.species_dict
          /\ rules' = w.rules
          /\ calls' = Append(calls, [reaction |-> r, returned |-> w.returned,
                                     raised |-> w.raised])
    /\ UNCHANGED <<location, result, compartment_ids, sbml_model, adaptervars, graphvars,
                   fixvars, collectvars, edgevars>>

NextTabular == \E r \in TabularPool : \E order \in SetOrders(PoolIds) : TabularAddReaction(r, order)

SpecTabular == InitTabular /\ [][NextTabular]_vars

\* the reaction IDs add_reaction was called with
AddedIds == {calls[k].reaction.id : k \in DOMAIN calls}

RECURSIVE SumOver(_, _)
\* the sum of f over a finite set
SumOver(f, S) ==
    IF S = {} THEN 0
    ELSE LET x == CHOOSE x \in S : TRUE IN f[x] + SumOver(f, S \ {x})

\* how many rules are collected, over all targets and both effects
RulesCollected ==
    SumOver([t \in DOMAIN rules |-> Len(rules[t].activation) + Len(rules[t].inhibition)],
            DOMAIN rules)

\* C15: a call of TabluarQqual.add_reaction with a reaction ID that was
\* added before returns -1, and a reaction added twice contributes its rule
\* once: with one target per reaction, no more rules are collected than
\* there are reaction IDs added
C15_TabularAddOnce ==
    /\ \A j \in DOMAIN calls : \A k \in DOMAIN calls :
          (j < k /\ calls[j].reaction.id = calls[k].reaction.id) => calls[k].returned = "-1"
    /\ RulesCollected <= Cardinality(AddedIds)


-----------------------------------------------------------------------------
(* Forms and compartments without a short code: the tracker's look-ups and *)
(* apply_model_fixes are called with species and fixes the configuration   *)
(* has no code for ('metabolite', 'vacuole') and with ones it has.         *)

ShortForms == {"protein", "metabolite"}
ShortCompartments == {"nucleus", "cytoplasm", "vacuole"}

ShortSpecies == {Species(NameN, f, c) : f \in ShortForms, c \in ShortCompartments}

ShortFixPool ==
    { TransportReaction(NameN, "protein", "nucleus", "cytoplasm", LOC_TRANSPORT_TO_CONSUMED),
      TransportReaction(NameN, "protein", "nucleus", "vacuole", LOC_TRANSPORT_TO_CONSUMED),
      TransportReaction(NameN, "protein", "vacuole", "cytoplasm", LOC_TRANSPORT_FROM_PRODUCED),
      TransportReaction(NameN, "metabolite", "nucleus", "cytoplasm", LOC_TRANSPORT_TO_CONSUMED),
      ReactionFix("rx1", "product", NameN, "protein_active", None,
                  FORM_PROTEIN_PRODUCT_ACTIVE) }

\* IDTracker.__init__ and an adapter with reactions collected
InitShort ==
    /\ location \in BOOLEAN
    /\ species_ids = <<>>
    /\ counters = [species_type |-> 0, species |-> 0, reaction |-> 0, compartment |-> 0]
    /\ result = [species |-> N_protein_cytoplasm, id |-> None, status |-> -1]
    /\ reactions \in {<<>>, <<CHOOSE r \in ReactionPool : r.id = "rx1">>}
    /\ additional_reactions = <<>>
    /\ apply_log = <<>>
    /\ reaction_ids = <<>>
    /\ compartment_ids = <<>>
    /\ sbml_model = EmptyModel
    /\ rules = <<>>
    /\ species_dict = <<>>
    /\ calls = <<>>
    /\ IdleGraph
    /\ IdleFixer
    /\ IdleCollect
    /\ IdleEdges

\* id, status = get_species_id(s); if status == 0: set_species_id(s, id)
ShortSpeciesId(s) ==
    LET got == get_species_id(location, species_ids, s)
    IN /\ Len(calls) < MaxAdds
       /\ calls' = Append(calls, [op |-> "get_species_id", arg |-> s,
                                  raised |-> IF got.id = KeyError THEN KeyError ELSE None])
       /\ IF got.id # KeyError /\ got.status = 0
          THEN /\ species_ids' = set_species_id(location, species_ids, s, got.id)
               /\ counters' = [counters EXCEPT !.species = @ + 1]
          ELSE UNCHANGED <<species_ids, counters>>
       /\ UNCHANGED <<location, result, reaction_ids, compartment_ids, sbml_model, rules,
                      species_dict, adaptervars, graphvars, fixvars, collectvars, edgevars>>

\* id, status = get_compartment_id(c); if status == 0: set_compartment_id(c, id)
ShortCompartmentId(c) ==
    LET got == get_compartment_id(compartment_ids, c)
    IN /\ Len(calls) < MaxAdds
       /\ calls' = Append(calls, [op |-> "get_compartment_id", arg |-> c,
                                  raised |-> IF got.id = KeyError THEN KeyError ELSE None])
       /\ IF got.id # KeyError /\ got.status = 0
          THEN /\ compartment_ids' = SetItem(compartment_ids, c, got.id)
               /\ counters' = [counters EXCEPT !.compartment = @ + 1]
          ELSE UNCHANGED <<compartment_ids, counters>>
       /\ UNCHANGED <<location, result, species_ids, reaction_ids, sbml_model, rules,
                      species_dict, adaptervars, graphvars, fixvars, collectvars, edgevars>>

\* fixer.apply_model_fixes(fixes)
ShortApplyFixes(fixes) ==
    LET st == apply_model_fixes(reactions, additional_reactions, fixes)
    IN /\ Len(calls) < MaxAdds
       /\ calls' = Append(calls, [op |-> "apply_model_fixes", arg |-> fixes,
                                  raised |-> st.raised])
       /\ reactions' = st.reactions
       /\ additional_reactions' = st.additional_reactions
       /\ UNCHANGED <<idvars, apply_log, reaction_ids, compartment_ids, sbml_model, rules,
                      species_dict, graphvars, fixvars, collectvars, edgevars>>

NextShort ==
    \/ \E s \in ShortSpecies : ShortSpeciesId(s)
    \/ \E c \in ShortCompartments : ShortCompartmentId(c)
    \/ \E fixes \in SeqsOf(ShortFixPool, MaxFixes) : ShortApplyFixes(fixes)

SpecShort == InitShort /\ [][NextShort]_vars

\* the form or the compartment has no short code in the configuration
NoFormCode(form) == form \notin DOMAIN node_form_to_short
NoCompartmentCode(compartment) == compartment \notin DOMAIN compartment_to_short

\* the call the step made
CallMade == calls'[Len(calls')]

\* a transport fix one of whose look-ups has no code
Unmapped(fix) ==
    /\ fix.kind = "TransportReaction"
    /\ \/ NoFormCode(fix.form)
       \/ NoCompartmentCode(fix.source_compartment)
       \/ NoCompartmentCode(fix.target_compartment)

\* the reaction is a translocation of the fix's species between its compartments
TransportOf(reaction, fix) ==
    /\ reaction.reaction_type = TRANSLOCATION
    /\ reaction.substrates = <<Species(fix.name, fix.form, fix.source_compartment)>>
    /\ reaction.products = <<Species(fix.name, fix.form, fix.target_compartment)>>

\* C16: a look-up of a form or compartment without a short code is a hard
\* error: get_species_id and the creation of a compartment ID raise KeyError
\* and leave species_ids, compartment_ids and the counters as they are, and
\* apply_model_fixes with such a transport fix raises KeyError with no
\* reaction of that fix in the collection and none registered as additional
C16_MissingCodeRaises ==
    [][Len(calls') = Len(calls) + 1 =>
        /\ (/\ CallMade.op = "get_species_id"
            /\ SpeciesKey(location, CallMade.arg) \notin DOMAIN species_ids
            /\ \/ NoFormCode(CallMade.arg.form)
               \/ location /\ NoCompartmentCode(CallMade.arg.compartment))
           => CallMade.raised = KeyError /\ UNCHANGED <<idvars, compartment_ids>>
        /\ (/\ CallMade.op = "get_compartment_id"
            /\ CallMade.arg \notin DOMAIN compartment_ids
            /\ NoCompartmentCode(CallMade.arg))
           => CallMade.raised = KeyError /\ UNCHANGED <<idvars, compartment_ids>>
        /\ (CallMade.op = "apply_model_fixes") =>
              \A k \in DOMAIN CallMade.arg :
                 Unmapped(CallMade.arg[k]) =>
                    /\ CallMade.raised = KeyError
                    /\ \A i \in DOMAIN reactions' : ~TransportOf(reactions'[i], CallMade.arg[k])
                    /\ Len(additional_reactions') - Len(additional_reactions) < k
                    /\ Len(reactions') - Len(reactions) < k]_vars

\* all three happened: get_species_id, the creation of a compartment ID and
\* apply_model_fixes, behind a fix that was applied, raised KeyError
C16_Witness ==
    /\ Len(calls) = 3
    /\ calls[1].op = "get_species_id" /\ calls[1].raised = KeyError
    /\ calls[2].op = "get_compartment_id" /\ calls[2].raised = KeyError
    /\ calls[3].op = "apply_model_fixes" /\ calls[3].raised = KeyError
    /\ Len(calls[3].arg) = 2 /\ ~Unmapped(calls[3].arg[1])
    /\ Len(additional_reactions) = 1
    /\ species_ids = <<>> /\ compartment_ids = <<>>


-----------------------------------------------------------------------------
(* Collection under an access level (pss/collectors.py and the older       *)
(* pss_adapter.py).  The database holds one Reaction node; a link is the   *)
(* sequence of the parts of its string, 'other:x' being <<"other", ":",    *)
(* "x">>.  No reaction or pathway filter is set and no node is ignored.    *)

MaxLinks == 3

INVENTED_REASOON_ALLOWLIST == {<<"invented", ":", "harmonise-location">>}

\* the property external_links is not set on the node: what stands for null
\* is a list whose one element is no link
Null == << <<None>> >>

\* link =~ 'other:.*' and link =~ 'invented:.*': the whole string matches
IsOther(link) == Len(link) >= 2 /\ link[1] = "other" /\ link[2] = ":"
IsInvented(link) == Len(link) >= 2 /\ link[1] = "invented" /\ link[2] = ":"

\* size([link IN r.external_links WHERE P(link) | 1])
SizeWhere(links, P(_)) == Cardinality({i \in DOMAIN links : P(links[i])})

InAllowlist(link) == link \in INVENTED_REASOON_ALLOWLIST

\* the public filter of PSSCollector._build_where_clause (lines 79-86); a
\* comparison with size(null) is null, which WHERE takes as false
collector_public_filter(links) ==
    /\ links # Null
    /\ \/ SizeWhere(links, IsOther) < Len(links)
       \/ SizeWhere(links, IsInvented) < Len(links)
       \/ SizeWhere(links, InAllowlist) > 0

\* the public filter of PSSAdapter.collect (pss_adapter.py lines 141-149)
adapter_public_filter(links) ==
    /\ links # Null
    /\ \/ Len(links) > SizeWhere(links, IsOther) + SizeWhere(links, IsInvented)
       \/ SizeWhere(links, InAllowlist) > 0

LinkPool ==
    { <<"doi", ":", "10.1/a">>, <<"other", ":", "x">>, <<"invented", ":", "y">>,
      <<"invented", ":", "harmonise-location">>, <<"other">> }

\* the Reaction nodes the database may hold: with or without relationships,
\* external_links a list or not set
ReactionNodes ==
    {[reaction_id |-> "rx1", external_links |-> links, edges |-> e] :
        links \in SeqsOf(LinkPool, MaxLinks) \cup {Null}, e \in BOOLEAN}

\* what stands for a collection that was not made yet
NotCollected == <<None>>

\* nothing is collected yet
InitCollect ==
    /\ database \in {<<node>> : node \in ReactionNodes}
    /\ access \in {"public", "all", None}
    /\ collected = NotCollected
    /\ public_reactions = NotCollected
    /\ IdleIds
    /\ IdleAdapter
    /\ IdleGraph
    /\ IdleFixer
    /\ IdleWriter
    /\ IdleEdges

\* the reaction IDs of the nodes of the database that pass a test, in the
\* order of the database
SelectIds(Test(_)) ==
    LET RECURSIVE select(_)
        select(nodes) ==
            IF nodes = <<>> THEN <<>>
            ELSE IF Test(Head(nodes)) THEN <<Head(nodes).reaction_id>> \o select(Tail(nodes))
            ELSE select(Tail(nodes))
    IN select(database)

\* PSSCollector(access=access).collect_reactions(): the WHERE clause belongs
\* to the OPTIONAL MATCH, so a reaction that fails it comes back without
\* paths and is skipped like a reaction without relationships
CollectReactions ==
    LET public == access # "all"
        kept(node) == node.edges /\ (public => collector_public_filter(node.external_links))
    IN /\ collected = NotCollected
       /\ collected' = SelectIds(kept)
       /\ UNCHANGED <<database, access, public_reactions>>
       /\ UNCHANGED <<idvars, adaptervars, graphvars, fixvars, writervars, edgevars>>

\* PSSAdapter.collect() of pss_adapter.py: public_reactions
Collect ==
    LET all_reactions(node) == node.edges
        public(node) == /\ node.edges
                        /\ adapter_public_filter(node.external_links)
                        /\ all_reactions(node)
    IN /\ public_reactions = NotCollected
       /\ public_reactions' = SelectIds(public)
       /\ UNCHANGED <<database, access, collected>>
       /\ UNCHANGED <<idvars, adaptervars, graphvars, fixvars, writervars, edgevars>>

NextCollect == CollectReactions \/ Collect

SpecCollect == InitCollect /\ [][NextCollect]_vars

\* at least one link is neither an 'other:' nor an 'invented:' link, or one
\* link is allow-listed
Eligible(links) ==
    /\ links # Null
    /\ \/ \E i \in DOMAIN links : ~IsOther(links[i]) /\ ~IsInvented(links[i])
       \/ \E i \in DOMAIN links : links[i] \in INVENTED_REASOON_ALLOWLIST

\* the reactions of the list are the eligible reactions with relationships
PublicOnly(list) ==
    \A i \in DOMAIN database :
        (\E k \in DOMAIN list : list[k] = database[i].reaction_id)
            <=> (database[i].edges /\ Eligible(database[i].external_links))

\* the older adapter's public_reactions are the eligible reactions
AdapterPublicOnly == public_reactions # NotCollected => PublicOnly(public_reactions)

\* C17: under public access the reactions collected, by PSSCollector as by
\* the older PSSAdapter, are those with at least one link that is neither
\* 'other:' nor 'invented:' or with an allow-listed link
C17_PublicEligible ==
    /\ (collected # NotCollected /\ access # "all") => PublicOnly(collected)
    /\ AdapterPublicOnly


-----------------------------------------------------------------------------
(* A Reaction under construction: add_edges is called with lists of raw    *)
(* edges of the database.                                                  *)

MaxEdges == 3

\* a raw edge
Edge(type, start_node, source_form, source_location, end_node, target_form, target_location) ==
    [type |-> type, start_node |-> start_node, source_form |-> source_form,
     source_location |-> source_location, end_node |-> end_node,
     target_form |-> target_form, target_location |-> target_location]

\* raw edges of a reaction 'rx1': of every type add_edges knows and of one
\* it does not, with locations set, not set, unknown and putative
EdgePool ==
    { Edge("SUBSTRATE", NameN, "protein", "nucleus", <<"rx1">>, None, None),
      Edge("SUBSTRATE", NameN, "gene", None, <<"rx1">>, None, None),
      Edge("TRANSLOCATE_FROM", NameN, "protein", "putative:nucleus", <<"rx1">>, None, None),
      Edge("PRODUCT", <<"rx1">>, None, None, NameN, "protein_active", None),
      Edge("TRANSLOCATE_TO", <<"rx1">>, None, None, NameN, "protein", "unknown"),
      Edge("INHIBITS", NameM, "condition", "cytoplasm", <<"rx1">>, None, None),
      Edge("ACTIVATES", NameM, "protein_active", "putative:unknown", <<"rx1">>, None, None),
      Edge("HAS_EVIDENCE", NameK, "protein", "nucleus", <<"rx1">>, None, None) }

\* Reaction.__init__ for the settings and reaction types of the model
InitEdges ==
    /\ self_reaction \in
          {Reaction("rx1", type, <<>>, <<>>, <<>>, "")
               @@ [include_conditions |-> conditions, include_genes |-> genes] :
           type \in {CATALYSIS, TRANSLOCATION, TRANSCRIPTIONAL_TRANSLATIONAL_ACTIVATION,
                      TRANSCRIPTIONAL_TRANSLATIONAL_REPRESSION},
           conditions \in BOOLEAN, genes \in BOOLEAN}
    /\ edge_list = <<>>
    /\ reported = <<>>
    /\ IdleIds
    /\ IdleAdapter
    /\ IdleGraph
    /\ IdleFixer
    /\ IdleWriter
    /\ IdleCollect

\* reaction.add_edges(list); edge_list keeps the edges handed over so far
AddEdges(list) ==
    LET st == add_edges([reaction |-> self_reaction, reported |-> reported], list)
    IN /\ Len(edge_list) + Len(list) <= MaxEdges
       /\ list # <<>>
       /\ self_reaction' = st.reaction
       /\ reported' = st.reported
       /\ edge_list' = edge_list \o list
       /\ UNCHANGED <<idvars, adaptervars, graphvars, fixvars, writervars, collectvars>>

NextEdges == \E list \in SeqsOf(EdgePool, MaxEdges) : AddEdges(list)

SpecEdges == InitEdges /\ [][NextEdges]_vars

\* the species of the three lists of the reaction
Participants ==
    Range(self_reaction.substrates) \cup Range(self_reaction.products)
        \cup Range(self_reaction.modifiers)

\* the compartments of the model that contain 'putative:'
PutativeCompartments == {"putative:nucleus", "putative:cytoplasm", "putative:unknown"}

\* C18: the compartment of every Species constructed is never null, never
\* 'unknown' and never contains 'putative:'
C18_CompartmentNormalised ==
    \A species \in Participants :
        /\ species.compartment # None
        /\ species.compartment # "unknown"
        /\ species.compartment \notin PutativeCompartments

\* the outcome the claim gives an edge
Outcome(edge) ==
    IF edge.type \in {"SUBSTRATE", "TRANSLOCATE_FROM"}
    THEN IF self_reaction.reaction_type \in TRANSCRIPTIONAL_TRANSLATIONAL
            /\ ~self_reaction.include_genes
         THEN "skipped" ELSE "substrate"
    ELSE IF edge.type \in {"PRODUCT", "TRANSLOCATE_TO"} THEN "product"
    ELSE IF edge.type \in {"INHIBITS", "ACTIVATES"}
    THEN IF edge.source_form = "condition" /\ ~self_reaction.include_conditions
         THEN "skipped" ELSE "modifier"
    ELSE "reported"

\* the edges handed over that have an outcome, in input order
EdgesOf(outcome) == SelectSeq(edge_list, LAMBDA edge : Outcome(edge) = outcome)

\* the name and form of the species of a list agree with one end of the edges
SameNodes(list, edges, key) ==
    /\ Len(list) = Len(edges)
    /\ \A i \in DOMAIN list :
          /\ list[i].name = IF key = "source" THEN edges[i].start_node ELSE edges[i].end_node
          /\ list[i].form = IF key = "source" THEN edges[i].source_form
                             ELSE edges[i].target_form

\* C19: add_edges gives every raw edge one outcome, in input order: the
\* substrates are the sources of the SUBSTRATE and TRANSLOCATE_FROM edges,
\* none of them for a transcriptional/translational reaction without
\* include_genes; the products are the targets of the PRODUCT and
\* TRANSLOCATE_TO edges; the modifiers are the sources of the INHIBITS and
\* ACTIVATES edges, those of form 'condition' left out without
\* include_conditions; every other edge is reported and changes no list
C19_EdgesClassified ==
    /\ SameNodes(self_reaction.substrates, EdgesOf("substrate"), "source")
    /\ SameNodes(self_reaction.products, EdgesOf("product"), "target")
    /\ SameNodes(self_reaction.modifiers, EdgesOf("modifier"), "source")
    /\ Len(reported) = Len(EdgesOf("reported"))
    /\ \A i \in DOMAIN reported : reported[i] = EdgesOf("reported")[i].type
    /\ Len(self_reaction.substrates) + Len(self_reaction.products)
           + Len(self_reaction.modifiers) + Len(reported) + Len(EdgesOf("skipped"))
         = Len(edge_list)

\* a transcriptional/translational reaction without include_genes was handed
\* a substrate edge, a product edge and an edge of an unknown type: one
\* skipped, one appended, one reported
C19_Witness ==
    /\ self_reaction.reaction_type = TRANSCRIPTIONAL_TRANSLATIONAL_ACTIVATION
    /\ ~self_reaction.include_genes
    /\ Len(edge_list) = 3
    /\ edge_list[1].type = "SUBSTRATE"
    /\ edge_list[2].type = "PRODUCT"
    /\ edge_list[3].type = "HAS_EVIDENCE"
    /\ self_reaction.substrates = <<>>
    /\ Len(self_reaction.products) = 1
    /\ reported = <<"HAS_EVIDENCE">>


-----------------------------------------------------------------------------
(* The edges of the graph built by _create_digraph.                        *)

\* the node stands for the species: in a graph without location the
\* compartment is no part of the identity
NodeOf(G, n, species) ==
    /\ NodeData(G.graph, n).type = "species"
    /\ NodeData(G.graph, n).name = species.name
    /\ NodeData(G.graph, n).form = species.form
    /\ G.location => NodeData(G.graph, n).compartment = species.compartment

\* an edge with the role tag joins the species and the reaction, from the
\* reaction to the species for a product and to the reaction otherwise
HasRoleEdge(G, reaction, species, role) ==
    \E e \in G.graph.edges :
        /\ e.type = role
        /\ IF role = "product"
           THEN e.u = reaction.id /\ NodeOf(G, e.v, species)
           ELSE e.v = reaction.id /\ NodeOf(G, e.u, species)

\* C20: in the graph as built, every species of the substrates, products
\* and modifiers of every reaction has an edge with that role tag to or
\* from the reaction, and every edge joins a species node and a reaction node
C20_RoleEdges ==
    bridge = NoBridge =>
        /\ \A i \in DOMAIN reactions : \A role \in {"substrate", "product", "modifier"} :
              \A k \in DOMAIN SpeciesList(reactions[i], role) :
                 HasRoleEdge(graph, reactions[i], SpeciesList(reactions[i], role)[k], role)
        /\ \A e \in graph.graph.edges :
              {NodeData(graph.graph, e.u).type, NodeData(graph.graph, e.v).type}
                  = {"species", "reaction"}


-----------------------------------------------------------------------------
(* The species nodes of the two views of the graph.                        *)

\* the species of the reactions the graph is built of
SpeciesBuilt ==
    UNION {Range(reactions[i].substrates) \cup Range(reactions[i].products)
               \cup Range(reactions[i].modifiers) : i \in DOMAIN reactions}

\* the species nodes of a graph
SpeciesNodes(G) == {G.graph.nodes[i] : i \in {j \in DOMAIN G.graph.nodes :
                                                G.graph.nodes[j].type = "species"}}

\* the identity of a species under a view
ViewKey(loc, species) ==
    IF loc THEN <<species.name, species.form, species.compartment>>
    ELSE <<species.name, species.form>>

\* the species nodes of a graph that stand for a species
NodesFor(G, species) ==
    {n \in SpeciesNodes(G) :
        /\ n.name = species.name
        /\ n.form = species.form
        /\ (G.location => n.compartment = species.compartment)}

\* C21: without location the species of one name and form have one node
\* whatever their compartments, with location the species of one name and
\* form in different compartments have different nodes, and in both views
\* there are as many species nodes as identity keys
C21_NodesPerKey ==
    /\ \A species \in SpeciesBuilt : Cardinality(NodesFor(graph, species)) = 1
    /\ \A n \in SpeciesNodes(graph) : \E species \in SpeciesBuilt : n \in NodesFor(graph, species)
    /\ Cardinality(SpeciesNodes(graph))
          = Cardinality({ViewKey(graph.location, species) : species \in SpeciesBuilt})
    /\ Cardinality({n.id : n \in SpeciesNodes(graph)}) = Cardinality(SpeciesNodes(graph))

\* the same reactions were built with location and then without: N as
\* protein has a node in the nucleus and one in the cytoplasm in the first
\* graph and one node in the second
C21_Witness ==
    /\ bridge = NoBridge
    /\ previous_graph.location /\ ~graph.location
    /\ {N_protein_nucleus, N_protein_cytoplasm} \subseteq SpeciesBuilt
    /\ Cardinality(NodesFor(previous_graph, N_protein_nucleus)
                      \cup NodesFor(previous_graph, N_protein_cytoplasm)) = 2
    /\ Cardinality(NodesFor(graph, N_protein_nucleus)
                      \cup NodesFor(graph, N_protein_cytoplasm)) = 1


-----------------------------------------------------------------------------
(* The names a pass finds problematic.                                     *)

\* a pass has built its graph and is about to take its first node
PassStarts == pc = "nodes" /\ pass_log[Len(pass_log)].taken = <<>>

\* the IDs of the species nodes of a name
NodesNamed(G, name) ==
    {G.nodes[i].id : i \in {j \in DOMAIN G.nodes :
                               G.nodes[j].type = "species" /\ G.nodes[j].name = name}}

\* the nodes of the name and the nodes an edge joins to one of them
OneHop(G, name) ==
    NodesNamed(G, name)
        \cup {e.u : e \in {d \in G.edges : d.v \in NodesNamed(G, name)}}
        \cup {e.v : e \in {d \in G.edges : d.u \in NodesNamed(G, name)}}

RECURSIVE LinkedWithin(_, _, _)
\* the nodes joined to some of nodes by edges, in either direction, that
\* stay within a set of nodes
LinkedWithin(G, within, nodes) ==
    LET step == {e.v : e \in {d \in G.edges : d.u \in nodes /\ d.v \in within}}
                    \cup {e.u : e \in {d \in G.edges : d.v \in nodes /\ d.u \in within}}
    IN IF step \subseteq nodes THEN nodes ELSE LinkedWithin(G, within, nodes \cup step)

\* the one-hop neighbourhood of the name is connected
OneHopConnected(G, name) ==
    \A n \in OneHop(G, name) : LinkedWithin(G, OneHop(G, name), {n}) = OneHop(G, name)

\* a path of the whole graph joins all nodes of the name
JoinedInGraph(G, name) ==
    \A n \in NodesNamed(G, name) :
        NodesNamed(G, name) \subseteq LinkedWithin(G, NodeIds(G), {n})

\* C22: the names find_problematic_nodes reports are those with more than
\* one species node whose one-hop neighbourhood is not weakly connected,
\* a name joined by a longer path included, and the nodes reported for a
\* name are all nodes of the name
C22_ReportedIffOneHopSplit ==
    PassStarts =>
        /\ {problematic_nodes[i].name : i \in DOMAIN problematic_nodes}
              = {name \in NamesIn(graph.graph) :
                    /\ Cardinality(NodesNamed(graph.graph, name)) > 1
                    /\ ~OneHopConnected(graph.graph, name)}
        /\ \A i \in DOMAIN problematic_nodes :
              /\ Range(problematic_nodes[i].species)
                    = NodesNamed(graph.graph, problematic_nodes[i].name)
              /\ Len(problematic_nodes[i].species)
                    = Cardinality(NodesNamed(graph.graph, problematic_nodes[i].name))
        /\ \A i \in DOMAIN problematic_nodes : \A j \in DOMAIN problematic_nodes :
              problematic_nodes[i].name = problematic_nodes[j].name => i = j

\* N is reported in a form pass although a path through M joins its two
\* nodes, and M, whose nodes are joined by one reaction, is not
C22_Witness ==
    /\ PassStarts
    /\ part = "form"
    /\ \E i \in DOMAIN problematic_nodes : problematic_nodes[i].name = NameN
    /\ Cardinality(NodesNamed(graph.graph, NameN)) = 2
    /\ JoinedInGraph(graph.graph, NameN)

-----------------------------------------------------------------------------
(* identify_model_fixes on collections whose species also come as gene,    *)
(* complex and complex_active and lie in the endoplasmic reticulum: any     *)
(* sequence of at most MaxRepairReactions distinct reactions of RepairPool. *)

\* the largest number of reactions of such a collection
MaxRepairReactions == 3

RepairPool ==
    { \* N is translated in the endoplasmic reticulum
      Reaction("rp1", TRANSCRIPTIONAL_TRANSLATIONAL_ACTIVATION, <<>>,
               <<Species(NameN, "protein", "endoplasmic reticulum")>>, <<>>, ""),
      \* active N catalyses in the cytoplasm
      Reaction("rp2", CATALYSIS, <<>>, <<>>,
               <<Species(NameN, "protein_active", "cytoplasm")>>, ""),
      \* N and M bind in the cytoplasm
      Reaction("rp3", BINDING_OLIGOMERISATION,
               <<N_protein_cytoplasm, M_protein_cytoplasm>>, <<>>, <<>>, ""),
      \* the complex N is formed in the cytoplasm
      Reaction("rp4", BINDING_OLIGOMERISATION, <<>>,
               <<Species(NameN, "complex", "cytoplasm")>>, <<>>, ""),
      \* the active complex N catalyses in the nucleus
      Reaction("rp5", CATALYSIS, <<>>, <<>>,
               <<Species(NameN, "complex_active", "nucleus")>>, ""),
      \* the gene N represses the translation of N in the nucleus
      Reaction("rp6", TRANSCRIPTIONAL_TRANSLATIONAL_REPRESSION, <<>>,
               <<N_protein_nucleus>>, <<Species(NameN, "gene", "nucleus")>>, ""),
      \* active N catalyses with a part in the cytoplasm and a part in the nucleus
      Reaction("rp7", CATALYSIS, <<>>, <<>>,
               <<N_active_cytoplasm, N_active_nucleus>>, ""),
      \* N catalyses in the endoplasmic reticulum
      Reaction("rp8", CATALYSIS, <<>>, <<>>,
               <<Species(NameN, "protein", "endoplasmic reticulum")>>, ""),
      \* N is degraded in the cytoplasm
      Reaction("rp9", CATALYSIS, <<N_protein_cytoplasm>>, <<>>, <<>>, "") }

RepairCollections == ListsOf(RepairPool, MaxRepairReactions)

\* the ways the fixer is set up and called: fixes applied or only identified
\* over MaxIterations passes, one interactive pass, and an empty range
RepairCalls ==
    { [interactive |-> FALSE, apply_fixes |-> TRUE, max_iterations |-> MaxIterations],
      [interactive |-> FALSE, apply_fixes |-> FALSE, max_iterations |-> MaxIterations],
      [interactive |-> TRUE, apply_fixes |-> FALSE, max_iterations |-> 1],
      [interactive |-> FALSE, apply_fixes |-> TRUE, max_iterations |-> 0] }

\* ModelFixer.__init__ and the call of identify_model_fixes on such a collection
InitRepair ==
    /\ reactions \in RepairCollections
    /\ additional_reactions = <<>>
    /\ apply_log = <<>>
    /\ \E call \in RepairCalls :
          /\ interactive = call.interactive
          /\ apply_fixes = call.apply_fixes
          /\ max_iterations = call.max_iterations
    /\ pc = "loop"
    /\ part = "form"
    /\ iteration = 0
    /\ problematic_nodes = <<>>
    /\ num_fixes_applied = 0
    /\ num_applied = [form |-> 0, location |-> 0]
    /\ pass_log = <<>>
    /\ IdleIds
    /\ IdleGraph
    /\ IdleOther

SpecRepair == InitRepair /\ [][NextFix]_vars

-----------------------------------------------------------------------------
(* Claims about the form suggestions on these collections.                 *)

\* the weakly connected components of the one-hop neighbourhood of a name
ComponentsOf(G, name) ==
    {LinkedWithin(G, OneHop(G, name), {n}) : n \in OneHop(G, name)}

\* the name of the node a step takes
NameTaken == Head(problematic_nodes).name

\* C23: when the subgraph of a problematic name has more than two weakly
\* connected components, _suggest_fixes_form returns no fix for it, whatever
\* the forms and the reaction types of the components, and nothing is applied
C23_TooComplexNoFix ==
    [][(/\ part = "form"
        /\ NodeTaken
        /\ Cardinality(ComponentsOf(graph.graph, NameTaken)) > 2)
          => Answer.found = 0 /\ UNCHANGED adaptervars
      ]_vars

\* a form pass took N, which is translated as protein in one component, is
\* protein_active in a second and has a third component, and found no fix
C23_Witness ==
    /\ pc = "nodes"
    /\ part = "form"
    /\ Len(TakenNow) = 1
    /\ TakenNow[1] = [name |-> NameN, found |-> 0, action |-> None]
    /\ Cardinality(ComponentsOf(graph.graph, NameN)) = 3
    /\ \E r \in DOMAIN reactions :
          /\ reactions[r].reaction_type \in TRANSCRIPTIONAL_TRANSLATIONAL
          /\ \E k \in DOMAIN reactions[r].products :
                reactions[r].products[k].name = NameN
                    /\ reactions[r].products[k].form = "protein"
    /\ \E o \in Occurrences(reactions, NameN) : o.species.form = "protein_active"

\* the sets of forms the name has in the components of its neighbourhood
ComponentForms(G, name) ==
    {{NodeData(G, n).form : n \in c \cap NodesNamed(G, name)} : c \in ComponentsOf(G, name)}

\* the name has a component of protein, with or without the gene, and one of
\* protein_active, with or without the gene, and no third component
ProteinAndActive(G, name) ==
    /\ Cardinality(ComponentsOf(G, name)) <= 2
    /\ {"protein"} \in ComponentForms(G, name) \/ {"gene", "protein"} \in ComponentForms(G, name)
    /\ \/ {"protein_active"} \in ComponentForms(G, name)
       \/ {"gene", "protein_active"} \in ComponentForms(G, name)

\* the component of the protein
ProteinComponent(G, name) ==
    CHOOSE c \in ComponentsOf(G, name) :
        {NodeData(G, n).form : n \in c \cap NodesNamed(G, name)}
            \in {{"protein"}, {"gene", "protein"}}

\* the transcriptional/translational reactions of the protein component
\* with a product edge to a node of the name
TranslationsOf(G, name) ==
    {r \in ProteinComponent(G, name) :
        /\ NodeData(G, r).type = "reaction"
        /\ NodeData(G, r).reaction_type \in TRANSCRIPTIONAL_TRANSLATIONAL
        /\ \E e \in G.edges : e.u = r /\ e.v \in NodesNamed(G, name) /\ e.type = "product"}

\* the binding/oligomerisation reactions of the protein component with a
\* substrate edge from a node of the name
BindingsOf(G, name) ==
    {r \in ProteinComponent(G, name) :
        /\ NodeData(G, r).type = "reaction"
        /\ NodeData(G, r).reaction_type = BINDING_OLIGOMERISATION
        /\ \E e \in G.edges : e.v = r /\ e.u \in NodesNamed(G, name) /\ e.type = "substrate"}

\* the retargets to protein_active the two options stand for
ProteinOptions(G, name) ==
    IF TranslationsOf(G, name) # {}
    THEN {ReactionFix(r, "product", name, "protein_active", None,
                      FORM_PROTEIN_PRODUCT_ACTIVE) : r \in TranslationsOf(G, name)}
    ELSE {ReactionFix(r, "substrate", name, "protein_active", None,
                      FORM_COMPLEX_SUBSTRATE_ACTIVE) : r \in BindingsOf(G, name)}

\* C24: in the protein/protein_active pattern the fixes suggested for a name
\* are one product retarget to protein_active per transcriptional/
\* translational reaction of the protein component with a product edge to
\* the name, and no substrate retarget, if there is such a reaction;
\* otherwise one substrate retarget to protein_active per binding/
\* oligomerisation reaction with a substrate edge from the name; and nothing
\* if there is neither.  These are the fixes a pass applies
C24_ProteinOptionsInOrder ==
    /\ []((/\ pc = "nodes"
           /\ part = "form"
           /\ problematic_nodes # <<>>
           /\ ProteinAndActive(graph.graph, NameTaken))
             => LET data == Head(problematic_nodes)
                    fixes == suggest_fixes_form(data.name, data.species, data.subgraph)
                IN /\ Range(fixes) = ProteinOptions(graph.graph, NameTaken)
                   /\ Len(fixes) = Cardinality(ProteinOptions(graph.graph, NameTaken)))
    /\ [][(/\ part = "form"
            /\ NodeTaken
            /\ ProteinAndActive(graph.graph, NameTaken))
              => /\ Answer.found = Cardinality(ProteinOptions(graph.graph, NameTaken))
                 /\ Len(apply_log') > Len(apply_log) =>
                        Range(apply_log'[Len(apply_log')].fixes)
                            = ProteinOptions(graph.graph, NameTaken)
          ]_vars

\* the first form pass applied to N the product retarget of its translation
\* alone, although N is also a substrate of a binding in the protein component
C24_Witness ==
    /\ pc = "nodes"
    /\ part = "form"
    /\ iteration = 0
    /\ Len(apply_log) = 1
    /\ apply_log[1] = [fixes |-> <<ReactionFix("rp1", "product", NameN, "protein_active",
                                               None, FORM_PROTEIN_PRODUCT_ACTIVE)>>,
                       num |-> 1]
    /\ ProteinAndActive(graph.graph, NameN)
    /\ BindingsOf(graph.graph, NameN) # {}
    /\ \E r \in DOMAIN reactions :
          reactions[r].id = "rp3" /\ reactions[r].substrates[1].form = "protein"

-----------------------------------------------------------------------------
(* Claims about the location suggestions on these collections.             *)

\* a location pass is at a node
AtLocationNode == pc = "nodes" /\ part = "location" /\ problematic_nodes # <<>>

\* the name in the form is consumed in compartment c, which is neither a
\* producing nor a transport-producing compartment, and the producing
\* compartments are none or several
Unsourced(list, name, form, c) ==
    /\ c \in ConsumedIn(list, name, form)
    /\ c \notin ProducedIn(list, name, form, FALSE) \cup ProducedIn(list, name, form, TRUE)
    /\ Cardinality(ProducedIn(list, name, form, FALSE)) # 1

\* C25: _suggest_fixes_location does not guess a source compartment: for a
\* form consumed in a compartment that is neither a producing nor a
\* transport-producing compartment, when the producing compartments are none
\* or more than one, no transport into that consuming compartment is suggested
C25_NoGuessedSource ==
    AtLocationNode =>
        \A co \in IterationOrders : \A po \in IterationOrders :
            \A fix \in Range(Suggest(Head(problematic_nodes), co, po)) :
                ~Unsourced(reactions, fix.name, fix.form, fix.target_compartment)

\* the compartments where the name occurs in the form
LocatedIn(list, name, form) ==
    {o.species.compartment : o \in {o \in Occurrences(list, name) : o.species.form = form}}

\* the forms in which the name occurs in at least two compartments
FormsApart(list, name) ==
    {form \in {o.species.form : o \in Occurrences(list, name)} :
        Cardinality(LocatedIn(list, name, form)) >= 2}

\* the fixes of a list that are for the form and of one of the types
FixesOf(fixes, form, types) ==
    {fixes[i] : i \in {j \in DOMAIN fixes : fixes[j].form = form /\ fixes[j].fix_type \in types}}

\* what the fallback heuristics give for the name in the form: endoplasmic
\* reticulum to cytoplasm for a protein form, else cytoplasm to the consuming
\* compartments no translocation produces it in
FallbackOf(list, name, form) ==
    IF form \in {"protein", "protein_active"}
          /\ "endoplasmic reticulum" \in LocatedIn(list, name, form)
    THEN IF "cytoplasm" \in ConsumedIn(list, name, form)
         THEN {TransportReaction(name, form, "endoplasmic reticulum", "cytoplasm",
                                 LOC_TRANSPORT_PROTEIN_ER_TO_CYT)}
         ELSE {}
    ELSE IF "cytoplasm" \in LocatedIn(list, name, form)
    THEN {TransportReaction(name, form, "cytoplasm", c, LOC_TRANSPORT_FROM_CYT) :
             c \in ConsumedIn(list, name, form)
                     \ ({"cytoplasm"} \cup ProducedIn(list, name, form, TRUE))}
    ELSE {}

\* C26: _suggest_fixes_location treats each form separately: for every form
\* of the name that occurs in at least two compartments, the fallback
\* heuristics give their fixes exactly when rules 1 and 2 produced no fix for
\* that form, whatever was found for the other forms of the name
C26_FallbackPerForm ==
    AtLocationNode =>
        \A co \in IterationOrders : \A po \in IterationOrders :
            \A form \in FormsApart(reactions, NameTaken) :
                LET fixes == Suggest(Head(problematic_nodes), co, po)
                    by_rules == FixesOf(fixes, form, {LOC_TRANSPORT_TO_CONSUMED,
                                                      LOC_TRANSPORT_FROM_PRODUCED})
                    by_fallback == FixesOf(fixes, form, {LOC_TRANSPORT_PROTEIN_ER_TO_CYT,
                                                         LOC_TRANSPORT_FROM_CYT})
                IN by_fallback = IF by_rules = {}
                                 THEN FallbackOf(reactions, NameTaken, form)
                                 ELSE {}

-----------------------------------------------------------------------------
(* Claims about what an applied fix leaves as it is.                        *)

\* the last call of apply_model_fixes, made by the step
LastApply == apply_log'[Len(apply_log')]

\* a species entry after the retarget of a fix that names it
Retargeted(entry, fix) ==
    IF fix.new_form \notin {None, ""}
    THEN [entry EXCEPT !.form = fix.new_form]
    ELSE [entry EXCEPT !.compartment = fix.new_location]

\* list after is list before with the entries of the fix's name retargeted
\* and every other entry as it was
OnlyNamedRetargeted(before, after, fix) ==
    /\ Len(after) = Len(before)
    /\ \A k \in DOMAIN before :
          after[k] = IF before[k].name = fix.name
                     THEN Retargeted(before[k], fix)
                     ELSE before[k]

\* reaction after is reaction before with the role list of the fix
\* retargeted and the tag of the fix added at the end of the export notes
OnlyRoleListRetargeted(before, after, fix) ==
    /\ after.id = before.id
    /\ after.reaction_type = before.reaction_type
    /\ \A role \in Roles :
          IF role = fix.species_role
          THEN OnlyNamedRetargeted(SpeciesList(before, role), SpeciesList(after, role), fix)
          ELSE SpeciesList(after, role) = SpeciesList(before, role)
    /\ after.export_notes = before.export_notes \o fix.fix_type

\* C27: a call of apply_model_fixes with one retarget fix changes only the
\* form, or only the compartment, of the species entries with the fix's name
\* in the fix's role list of the named reaction, leaves every other entry,
\* role list and reaction and additional_reactions as they are, and adds the
\* tag of the fix at the end of that reaction's export notes; a fix that
\* names a reaction the collection does not hold changes nothing
C27_RetargetFrame ==
    [][(/\ Len(apply_log') = Len(apply_log) + 1
        /\ Len(LastApply.fixes) = 1
        /\ LastApply.fixes[1].kind = "ReactionFix")
          => /\ additional_reactions' = additional_reactions
             /\ Len(reactions') = Len(reactions)
             /\ \A i \in DOMAIN reactions :
                   IF reactions[i].id = LastApply.fixes[1].reaction_id
                   THEN OnlyRoleListRetargeted(reactions[i], reactions'[i], LastApply.fixes[1])
                   ELSE reactions'[i] = reactions[i]
             /\ LastApply.fixes[1].reaction_id \notin ReactionIds(reactions) =>
                   reactions' = reactions /\ LastApply.num = 0
      ]_vars

\* the substrate retarget of N in rx7 was applied twice: N is protein_active
\* in rx7, M beside it is protein as before, the notes of rx7 carry the tag
\* twice and the other reaction, where N is protein, is as it was collected
C27_Witness ==
    /\ Len(apply_log) = 2
    /\ \A c \in DOMAIN apply_log :
          apply_log[c] = [fixes |-> <<ReactionFix("rx7", "substrate", NameN, "protein_active",
                                                 None, FORM_COMPLEX_SUBSTRATE_ACTIVE)>>,
                         num |-> 1]
    /\ Len(reactions) = 2
    /\ \E i \in DOMAIN reactions :
          /\ reactions[i].id = "rx7"
          /\ reactions[i].substrates = <<N_active_cytoplasm, M_protein_cytoplasm>>
          /\ reactions[i].export_notes
                = FORM_COMPLEX_SUBSTRATE_ACTIVE \o FORM_COMPLEX_SUBSTRATE_ACTIVE
    /\ \E i \in DOMAIN reactions :
          reactions[i] \in ReactionPool /\ reactions[i].substrates = <<N_protein_cytoplasm>>

-----------------------------------------------------------------------------
(* Claims about the additional reactions.                                  *)

\* the reactions collected from the database: those before the ones that
\* apply_model_fixes added at the end
CollectedIds ==
    {reactions[i].id : i \in 1..(Len(reactions) - Len(additional_reactions))}

\* a reaction is the translocation of one species from one compartment to
\* another, filed under the ID made of its name, form and compartments
IsTransport(r) ==
    /\ r.reaction_type = TRANSLOCATION
    /\ Len(r.substrates) = 1
    /\ Len(r.products) = 1
    /\ r.modifiers = <<>>
    /\ r.products[1].name = r.substrates[1].name
    /\ r.products[1].form = r.substrates[1].form
    /\ r.id = TransportId(TransportReaction(r.substrates[1].name, r.substrates[1].form,
                                            r.substrates[1].compartment,
                                            r.products[1].compartment, None))

\* C28: after any sequence of applied fixes every ID of additional_reactions
\* is the key of one reaction of the collection, occurs once in
\* additional_reactions, is not the ID of a collected reaction, and names a
\* translocation with one substrate (name, form, source), one product (name,
\* form, target) and no modifiers, which a transport fix of a call describes
C28_AdditionalReactions ==
    \A k \in DOMAIN additional_reactions :
        /\ Cardinality(WithId(reactions, additional_reactions[k])) = 1
        /\ \A j \in DOMAIN additional_reactions :
              additional_reactions[j] = additional_reactions[k] => j = k
        /\ additional_reactions[k] \notin CollectedIds
        /\ \A i \in WithId(reactions, additional_reactions[k]) :
              /\ IsTransport(reactions[i])
              /\ \E c \in DOMAIN apply_log : \E f \in TransportsOf(apply_log[c].fixes) :
                    reactions[i] = NewTransport(f)

\* the transport of N from the nucleus to the cytoplasm was applied in two
\* calls, the second together with a retarget: it is listed once, after the
\* two collected reactions
C28_Witness ==
    /\ Len(apply_log) = 2
    /\ Len(reactions) = 3
    /\ Cardinality(CollectedIds) = 2
    /\ additional_reactions = <<"transport_N_p_nuc_to_cyt">>
    /\ apply_log[1].num = 1
    /\ Len(apply_log[2].fixes) = 2
    /\ \A c \in DOMAIN apply_log :
          \E k \in DOMAIN apply_log[c].fixes :
              apply_log[c].fixes[k] = TransportReaction(NameN, "protein", "nucleus", "cytoplasm",
                                                        LOC_TRANSPORT_TO_CONSUMED)
    /\ reactions[3] = Reaction("transport_N_p_nuc_to_cyt", TRANSLOCATION,
                               <<N_protein_nucleus>>, <<N_protein_cytoplasm>>, <<>>,
                               LOC_TRANSPORT_TO_CONSUMED)

\* the collection holds the translocation a transport fix describes
Transported(list, fix) ==
    \E i \in DOMAIN list :
        /\ list[i].reaction_type = TRANSLOCATION
        /\ list[i].substrates = <<Species(fix.name, fix.form, fix.source_compartment)>>
        /\ list[i].products = <<Species(fix.name, fix.form, fix.target_compartment)>>

\* C29: a transport fix is skipped as already existing only when a transport
\* of the same name, form, source and target is in the collection: after a
\* call of apply_model_fixes the collection holds, for each transport fix of
\* the call, the translocation of that name and form from that source to
\* that target, and two transport fixes that differ in one of the four have
\* different IDs
C29_NoTransportDropped ==
    /\ \A c \in DOMAIN apply_log : \A f \in TransportsOf(apply_log[c].fixes) :
          Transported(reactions, f)
    /\ \A c \in DOMAIN apply_log : \A d \in DOMAIN apply_log :
          \A f \in TransportsOf(apply_log[c].fixes) : \A g \in TransportsOf(apply_log[d].fixes) :
              TransportId(f) = TransportId(g) =>
                  /\ f.name = g.name
                  /\ f.form = g.form
                  /\ f.source_compartment = g.source_compartment
                  /\ f.target_compartment = g.target_compartment

-----------------------------------------------------------------------------
(* Claims about the course of the form repairs.                            *)

ActiveForms == {"protein_active", "complex_active"}

PlainForms == {"protein", "gene", "complex"}

\* the places of the species entries of a list of reactions
Entries(list) ==
    {<<i, role, k>> : i \in DOMAIN list, role \in Roles, k \in 1..MaxSpecies} \cap
        UNION {{<<i, role, k>> : k \in DOMAIN SpeciesList(list[i], role)} :
                  i \in DOMAIN list, role \in Roles}

\* the species entry at a place
EntryAt(list, e) == SpeciesList(list[e[1]], e[2])[e[3]]

\* the number of species entries whose form is not an active one
NonActive(list) ==
    Cardinality({e \in Entries(list) : EntryAt(list, e).form \notin ActiveForms})

\* C30: form repairs never cycle: every species entry a step of a form pass
\* rewrites had the form protein, gene or complex before and has
\* protein_active or complex_active after, with its name and compartment
\* kept; an entry that has an active form is never rewritten; and every
\* step that counts an applied fix, hence every form pass that does,
\* strictly lowers the number of entries that are not active
C30_FormRepairsDescend ==
    [][part = "form" =>
          /\ Len(reactions') = Len(reactions)
          /\ Entries(reactions') = Entries(reactions)
          /\ \A e \in Entries(reactions) :
                EntryAt(reactions', e) # EntryAt(reactions, e) =>
                    /\ EntryAt(reactions, e).form \in PlainForms
                    /\ EntryAt(reactions', e).form \in ActiveForms
                    /\ EntryAt(reactions', e).name = EntryAt(reactions, e).name
                    /\ EntryAt(reactions', e).compartment = EntryAt(reactions, e).compartment
          /\ Len(apply_log') > Len(apply_log) =>
                /\ \A k \in DOMAIN LastApply.fixes :
                      /\ LastApply.fixes[k].kind = "ReactionFix"
                      /\ \A e \in Entries(reactions) :
                            (/\ reactions[e[1]].id = LastApply.fixes[k].reaction_id
                             /\ e[2] = LastApply.fixes[k].species_role
                             /\ EntryAt(reactions, e).name = LastApply.fixes[k].name)
                               => EntryAt(reactions, e).form \in PlainForms
                /\ NonActive(reactions') = NonActive(reactions) - LastApply.num
          /\ num_fixes_applied' > num_fixes_applied =>
                NonActive(reactions') < NonActive(reactions)
          /\ NonActive(reactions') <= NonActive(reactions)
      ]_vars

\* two form passes each applied one fix to N, the translation product first
\* and the binding substrate second, and no entry of N is left that is not
\* active
C30_Witness ==
    /\ Len(pass_log) >= 2
    /\ pass_log[1].part = "form" /\ pass_log[1].finished /\ pass_log[1].applied = 1
    /\ pass_log[2].part = "form" /\ pass_log[2].finished /\ pass_log[2].applied = 1
    /\ Len(apply_log) = 2
    /\ apply_log[1].fixes[1].species_role = "product"
    /\ apply_log[2].fixes[1].species_role = "substrate"
    /\ \A o \in Occurrences(reactions, NameN) : o.species.form \in ActiveForms
    /\ NonActive(reactions) = 1

====
